---- MODULE Spec2Model ----
(***************************************************************************)
(* Model of the AIDL compiler front end: method-ID assignment, structural  *)
(* validation, constant rendering, the type-name registry, the parser,     *)
(* the load-and-validate pipeline, the preprocessed-file reader, the       *)
(* API compatibility check and the entry points of the tool.               *)
(***************************************************************************)
EXTENDS Integers, Sequences, FiniteSets, TLC

VARIABLES
  pc,          \* position of the operation under study
  ifaceOneway, \* AidlInterface::oneway_
  methods,     \* AidlInterface::methods_, mutated in place by the validator
  methodsIn,   \* the methods as the parser constructed them (history)
  idRes,       \* outcome of check_and_assign_method_ids: ret, errItem, errKind
  ctRes,       \* outcome of check_types: err and the errors it reported
  tspec,       \* an AidlTypeSpecifier handed to CheckValid
  cvRes,       \* what CheckValid returned for tspec ("none" before the call)
  literal,     \* an AidlConstantValue: type_, value_, values_
  ltype,       \* the AidlTypeSpecifier the literal is rendered against
  asRes,       \* what AidlConstantValue::As produced: a string or a fatal abort
  defined_types_,      \* AidlTypenames::defined_types_, a set of map entries
  preprocessed_types_, \* AidlTypenames::preprocessed_types_
  lastAdd,     \* the last AddDefinedType / AddPreprocessedType call and its result
  lkName,      \* the name handed to TryGetDefinedType / ResolveTypename
  lkRes,       \* what the lookup returned
  lkAgain,     \* what a second ResolveTypename returned
  ldErr,       \* load_and_validate_aidl: the local err, then the value returned
  ldDoc,       \* the defined types of the parsed document
  ldImports,   \* the imports of the input file, in order, and what the loop did
  returned_type, \* *returned_type, "null" until the function sets it
  ldStructured,  \* options.IsStructured()
  ldFields,    \* AidlStructuredParcelable::variables_ of the input file's type
  ldParsers,   \* the Parser objects load_and_validate_aidl has constructed
  ldTrace,     \* the steps load_and_validate_aidl has run, with their outcome
  parser,      \* a Parser object that ParseFile is called on
  psLog,       \* the files handed to ParseFile on parser, and what it returned
  constants,   \* AidlInterface::constants_ handed to validate_constants
  vcRes,       \* what validate_constants returned, checked and reported
  apiOld,      \* the content of the old-version file handed to check_api
  apiNew,      \* the content of the new-version file handed to check_api
  apiRes,      \* how check_api ended, what it reported and what it had loaded
  toolIn,      \* the options of a run of the tool: input files, fail-on-parcelable
  toolRes,     \* which entry point ran, what it returned, dereferenced and wrote
  ppFile       \* a preprocessed file as written: whether it opens, and its lines

ifVars == <<ifaceOneway, methods, methodsIn, idRes, ctRes>>
tsVars == <<tspec, cvRes>>
constVars == <<literal, ltype, asRes>>
regVars == <<defined_types_, preprocessed_types_, lastAdd>>
lkVars == <<lkName, lkRes, lkAgain>>
loadVars ==
  <<ldErr, ldDoc, ldImports, returned_type, ldStructured, ldFields, ldParsers, ldTrace>>
psVars == <<parser, psLog>>
vcVars == <<constants, vcRes>>
apiVars == <<apiOld, apiNew, apiRes>>
runVars == <<toolIn, toolRes>>
toolVars == <<apiVars, runVars, ppFile>>
coreVars == <<ifVars, tsVars, constVars, regVars, lkVars, loadVars, psVars, vcVars>>

\* what an operation on one part of the state leaves alone
notIface ==
  <<tsVars, constVars, regVars, lkVars, loadVars, psVars, vcVars, toolVars>>
notTypeSpec ==
  <<ifVars, constVars, regVars, lkVars, loadVars, psVars, vcVars, toolVars>>
notConst ==
  <<ifVars, tsVars, regVars, lkVars, loadVars, psVars, vcVars, toolVars>>
notRegistry ==
  <<ifVars, tsVars, constVars, lkVars, loadVars, psVars, vcVars, toolVars>>
notLookup ==
  <<ifVars, tsVars, constVars, regVars, loadVars, psVars, vcVars, toolVars>>
notLoad ==
  <<tsVars, constVars, lastAdd, lkVars, psVars, vcVars, toolVars>>
notParser ==
  <<ifVars, tsVars, constVars, regVars, lkVars, loadVars, vcVars, toolVars>>
notValidate ==
  <<ifVars, tsVars, constVars, regVars, lkVars, loadVars, psVars, toolVars>>

vars == <<pc, coreVars, toolVars>>

-----------------------------------------------------------------------------
(* Bounds *)

MaxMethods == 3
MaxCheckedMethods == 2
MaxTypeParams == 3

-----------------------------------------------------------------------------
(* aidl_language.h / aidl_language.cpp: the AST nodes *)

\* AidlTypeSpecifier. fully_qualified_name is "" until Resolve succeeds;
\* generic is type_params_ != nullptr; ns is what the backend TypeNamespace
\* answers for the type; language_type is the tag SetLanguageType attaches.
TypeSpec(name, fqn, arr, gen, params, nsAnswer) ==
  [unresolved_name |-> name, fully_qualified_name |-> fqn, is_array |-> arr,
   generic |-> gen, type_params |-> params, ns |-> nsAnswer,
   language_type |-> "null"]

\* aidl_language.h:120
IsResolved(ts) == ts.fully_qualified_name # ""

\* aidl_language.h:102-108
GetName(ts) == IF IsResolved(ts) THEN ts.fully_qualified_name ELSE ts.unresolved_name

\* aidl_language.h:124
IsGeneric(ts) == ts.generic

ListArityBad_atLeastOne(num) == num >= 1
\* aidl_language.cpp:174
ListArityBad(num) == num > 1

\* aidl_language.cpp:180
MapArityBad(num) == num # 0 /\ num # 2

\* aidl_language.cpp:169-188
CheckValid(ts) ==
  IF IsGeneric(ts)
  THEN LET type_name == GetName(ts)
           num == Len(ts.type_params)
       IN IF type_name = "List" THEN ~ListArityBad(num)
          ELSE IF type_name = "Map" THEN ~MapArityBad(num)
          ELSE TRUE
  ELSE TRUE

\* AidlArgument::Direction, aidl_language.h:186
IN_DIR == 1
OUT_DIR == 2
INOUT_DIR == 3

Argument(dir, ts) == [direction |-> dir, type |-> ts]

IsOut_onlyPureOut(arg) == arg.direction = OUT_DIR
\* aidl_language.h:194: direction_ & OUT_DIR
IsOut(arg) == (arg.direction \div OUT_DIR) % 2 = 1

\* aidl_language.h:195: direction_ & IN_DIR
IsIn(arg) == arg.direction % 2 = 1

\* AidlMethod, aidl_language.cpp:347-376
Method(name, oneway, ts, args, hasId, id) ==
  [name |-> name, oneway |-> oneway, type |-> ts, arguments |-> args,
   has_id |-> hasId, id |-> id]

VoidType == TypeSpec("void", "void", FALSE, FALSE, <<>>, "ok")
IntType == TypeSpec("int", "int", FALSE, FALSE, <<>>, "ok")

\* AidlConstantValue, aidl_const_expressions.cpp:225-234. value_ is the
\* literal's text: sign and digits for integral and hexadecimal literals
\* (hexadecimal digits after "0x"), the text without a trailing f and the
\* presence of that f for floating literals, the text itself otherwise.
Value(neg, digits, text, fsuffix) ==
  [neg |-> neg, digits |-> digits, text |-> text, fsuffix |-> fsuffix]
Literal(kind, value, values) == [type |-> kind, value |-> value, values |-> values]

NoLiteral == Literal("BOOLEAN", Value(FALSE, <<>>, "true", FALSE), <<>>)
NoAsRes == [fatal |-> FALSE, str |-> <<>>]

\* values of the result variables before the operation has run
NoCtRes == [err |-> -1, reports |-> <<>>]
NoIdRes == [ret |-> -1, errItem |-> 0, errKind |-> "none"]

\* the parts of the state an operation under study does not touch
IdleTypeSpec == tspec = VoidType /\ cvRes = "none"
IdleInterface ==
  /\ ifaceOneway = FALSE /\ methods = <<>> /\ methodsIn = <<>>
  /\ idRes = NoIdRes /\ ctRes = NoCtRes
IdleConst == literal = NoLiteral /\ ltype = VoidType /\ asRes = NoAsRes

\* AidlDefinedType, aidl_language.cpp:395-398; kind is the subclass
DefinedType(package, name, kind) == [package |-> package, name |-> name, kind |-> kind]

NoAdd == [op |-> "none", type |-> DefinedType(<<>>, "", "none"), ret |-> FALSE]
IdleRegistry == defined_types_ = {} /\ preprocessed_types_ = {} /\ lastAdd = NoAdd
IdleLoad ==
  /\ ldErr = "OK" /\ ldDoc = <<>> /\ ldImports = <<>> /\ returned_type = "null"
  /\ ldStructured = FALSE /\ ldFields = <<>> /\ ldParsers = <<>> /\ ldTrace = <<>>

\* aidl_language.h:580-593: a Parser; package_ and raw_buffer_ are "null" or
\* what they hold, document_ is the file it was built from and its types
ParserObject(typenames, error, filename, package, doc, imports, buffer, typespecs) ==
  [typenames_ |-> typenames, error_ |-> error, filename_ |-> filename,
   package_ |-> package, document_ |-> doc, imports_ |-> imports,
   raw_buffer_ |-> buffer, unresolved_typespecs_ |-> typespecs]

\* a document: the file it was parsed from and the types it defines
Document(file, types) == [file |-> file, types |-> types]
NoDocument == Document("null", <<>>)

\* aidl_language.cpp:498-501 and the member initialisers of aidl_language.h
NewParser(typenames) ==
  ParserObject(typenames, 0, "", "null", NoDocument, <<>>, "null", <<>>)

NoValidation == [ret |-> "none", checked |-> <<>>, reports |-> <<>>]
IdleParser == parser = NewParser("none") /\ psLog = <<>>
IdleValidate == constants = <<>> /\ vcRes = NoValidation

\* a pointer to the type held by an entry of one of the two maps
NullPtr == [tier |-> "none", type |-> DefinedType(<<>>, "", "none")]
LookupResult(op, arg, ptr, name, found) ==
  [op |-> op, arg |-> arg, ptr |-> ptr, name |-> name, found |-> found]
NoLookup == LookupResult("none", "", NullPtr, "", FALSE)
IdleLookup == lkName = "" /\ lkRes = NoLookup /\ lkAgain = NoLookup

\* the content of a file handed to check_api: whether it can be read and
\* parsed, and the types it declares
ApiSource(readable, types) == [readable |-> readable, types |-> types]
NoApiSource == ApiSource(FALSE, <<>>)
ApiResult(ret, reports, old_types, new_types) ==
  [ret |-> ret, reports |-> reports, old_types |-> old_types, new_types |-> new_types]
NoApiResult == ApiResult("none", <<>>, <<>>, <<>>)
IdleApi == apiOld = NoApiSource /\ apiNew = NoApiSource /\ apiRes = NoApiResult
\* Options as the entry points read them: InputFiles() and FailOnParcelable()
Options(input_files, fail_on_parcelable) ==
  [input_files |-> input_files, fail_on_parcelable |-> fail_on_parcelable]
\* what an entry point did: the loads it made, the places where it
\* dereferenced the returned type, what it returned and what it wrote
RunResult(caller, ret, loads, derefs, out) ==
  [caller |-> caller, ret |-> ret, loads |-> loads, derefs |-> derefs, out |-> out]
NoRun == RunResult("none", "none", <<>>, <<>>, <<>>)
IdleRun == toolIn = Options(<<>>, FALSE) /\ toolRes = NoRun
IdlePreprocessed == ppFile = [opens |-> FALSE, lines |-> <<>>]
IdleTools == IdleApi /\ IdleRun /\ IdlePreprocessed
IdleCore ==
  /\ IdleInterface /\ IdleTypeSpec /\ IdleConst /\ IdleRegistry /\ IdleLookup
  /\ IdleLoad /\ IdleParser /\ IdleValidate

IdleExceptIface ==
  /\ IdleTypeSpec /\ IdleConst /\ IdleRegistry /\ IdleLookup /\ IdleLoad /\ IdleParser /\ IdleValidate
  /\ IdleTools
IdleExceptTypeSpec ==
  /\ IdleInterface /\ IdleConst /\ IdleRegistry /\ IdleLookup /\ IdleLoad /\ IdleParser /\ IdleValidate
  /\ IdleTools
IdleExceptConst ==
  /\ IdleInterface /\ IdleTypeSpec /\ IdleRegistry /\ IdleLookup /\ IdleLoad /\ IdleParser /\ IdleValidate
  /\ IdleTools
IdleExceptRegistry ==
  /\ IdleInterface /\ IdleTypeSpec /\ IdleConst /\ IdleLookup /\ IdleLoad /\ IdleParser /\ IdleValidate
  /\ IdleTools
IdleExceptLookup ==
  /\ IdleInterface /\ IdleTypeSpec /\ IdleConst /\ IdleLoad /\ IdleParser /\ IdleValidate
  /\ IdleTools
IdleExceptLoad ==
  /\ IdleTypeSpec /\ IdleConst /\ lastAdd = NoAdd /\ IdleLookup /\ IdleParser /\ IdleValidate
  /\ IdleTools
IdleExceptParser ==
  /\ IdleInterface /\ IdleTypeSpec /\ IdleConst /\ IdleRegistry /\ IdleLookup
  /\ IdleLoad /\ IdleValidate /\ IdleTools
IdleExceptValidate ==
  /\ IdleInterface /\ IdleTypeSpec /\ IdleConst /\ IdleRegistry /\ IdleLookup
  /\ IdleLoad /\ IdleParser /\ IdleTools

-----------------------------------------------------------------------------
(* Machine integers of 8, 32 and 64 bits. A value is a big-endian sequence *)
(* of digits (base 16 for bit patterns, base 10 for printed text), since   *)
(* the 64-bit values do not fit the model checker's own integers.          *)

RECURSIVE StripZeros(_)
StripZeros(ds) ==
  IF Len(ds) > 1 /\ ds[1] = 0 THEN StripZeros(Tail(ds)) ELSE ds

\* ds divided by the small number d, digits in the given base: <<quotient, remainder>>
RECURSIVE DivSmall(_, _, _, _, _)
DivSmall(ds, base, d, carry, acc) ==
  IF ds = <<>> THEN <<StripZeros(acc), carry>>
  ELSE LET cur == carry * base + ds[1]
       IN DivSmall(Tail(ds), base, d, cur % d, Append(acc, cur \div d))

\* std::to_string of a magnitude held as hexadecimal digits
RECURSIVE HexToDecimal(_)
HexToDecimal(ds) ==
  LET qr == DivSmall(ds, 16, 10, 0, <<0>>)
  IN IF qr[1] = <<0>> THEN <<qr[2]>> ELSE Append(HexToDecimal(qr[1]), qr[2])

\* the bit pattern ds (n hexadecimal digits) plus one, modulo 16^n
RECURSIVE AddOne(_)
AddOne(ds) ==
  IF ds = <<>> THEN <<>>
  ELSE LET n == Len(ds)
           init == SubSeq(ds, 1, n - 1)
       IN IF ds[n] < 15 THEN Append(init, ds[n] + 1)
          ELSE Append(AddOne(init), 0)

\* two's-complement negation of an n-digit bit pattern
Negate(ds) == AddOne([i \in 1..Len(ds) |-> 15 - ds[i]])

PadTo(ds, n) == [i \in 1..(n - Len(ds)) |-> 0] \o ds

\* android::base::ParseUint<uintN_t> on "0x" followed by the digits ds: fails
\* when the value exceeds the N-bit maximum, else gives the N-bit pattern
ParseUint(ds, bits) ==
  LET sig == StripZeros(ds)
  IN [ok |-> Len(sig) <= bits \div 4,
      pattern |-> IF Len(sig) <= bits \div 4 THEN PadTo(sig, bits \div 4) ELSE sig]

\* the casts (int8_t), (int32_t), (int64_t) followed by std::to_string
SignedToString_asUnsigned(pattern) ==
  [neg |-> FALSE, digits |-> HexToDecimal(pattern)]
SignedToString(pattern) ==
  IF pattern[1] >= 8
  THEN [neg |-> TRUE, digits |-> HexToDecimal(Negate(pattern))]
  ELSE [neg |-> FALSE, digits |-> HexToDecimal(pattern)]

\* decimal digit sequences: ordering
DecLess(a, b) ==
  LET x == StripZeros(a)
      y == StripZeros(b)
  IN \/ Len(x) < Len(y)
     \/ /\ Len(x) = Len(y)
        /\ \E i \in 1..Len(x) :
              /\ x[i] < y[i]
              /\ \A j \in 1..(i - 1) : x[j] = y[j]

\* numeric_limits<intN_t>::max() and the magnitude of ::min(), as printed
IntMax(bits) ==
  IF bits = 8 THEN <<1, 2, 7>>
  ELSE IF bits = 32 THEN <<2, 1, 4, 7, 4, 8, 3, 6, 4, 7>>
  ELSE <<9, 2, 2, 3, 3, 7, 2, 0, 3, 6, 8, 5, 4, 7, 7, 5, 8, 0, 7>>
IntMinMagnitude(bits) ==
  IF bits = 8 THEN <<1, 2, 8>>
  ELSE IF bits = 32 THEN <<2, 1, 4, 7, 4, 8, 3, 6, 4, 8>>
  ELSE <<9, 2, 2, 3, 3, 7, 2, 0, 3, 6, 8, 5, 4, 7, 7, 5, 8, 0, 8>>

\* android::base::ParseInt<intN_t> on an optionally signed decimal literal
ParseInt(neg, ds, bits) ==
  IF neg THEN ~DecLess(IntMinMagnitude(bits), ds)
  ELSE ~DecLess(IntMax(bits), ds)

-----------------------------------------------------------------------------
(* aidl_language.cpp: AidlTypeSpecifier::CheckValid on its own *)

\* (name as written, name after resolution); "" is a specifier not resolved
\* yet; the Java-style aliases resolve to List and Map
TypeNamePairs ==
  {<<"List", "List">>, <<"List", "">>, <<"java.util.List", "List">>,
   <<"java.util.List", "">>, <<"Map", "Map">>, <<"Map", "">>,
   <<"java.util.Map", "Map">>, <<"Foo", "a.Foo">>, <<"Foo", "">>,
   <<"int", "int">>}

TypeParams(n) == [i \in 1..n |-> "String"]

InitCheckValid ==
  /\ pc = "cv_call"
  /\ \E np \in TypeNamePairs, arr \in BOOLEAN, gen \in BOOLEAN, n \in 0..MaxTypeParams :
        /\ (~gen => n = 0)
        /\ tspec = TypeSpec(np[1], np[2], arr, gen, TypeParams(n), "ok")
  /\ cvRes = "none"
  /\ IdleExceptTypeSpec

CheckValidCall ==
  /\ pc = "cv_call"
  /\ cvRes' = CheckValid(tspec)
  /\ pc' = "cv_done"
  /\ UNCHANGED <<tspec, notTypeSpec>>

NextCheckValid == CheckValidCall

SpecCheckValid == InitCheckValid /\ [][NextCheckValid]_vars

NumTypeParams(ts) == IF ts.generic THEN Len(ts.type_params) ELSE 0

\* C6: CheckValid rejects a List with two or more type parameters and a Map
\* whose number of type parameters is neither 0 nor 2; it accepts List with
\* 0 or 1, Map with 0 or 2, and every specifier named neither List nor Map.
C6_GenericArity ==
  pc = "cv_done" =>
    LET name == GetName(tspec)
        num == NumTypeParams(tspec)
    IN /\ (name = "List" /\ num >= 2) => cvRes = FALSE
       /\ (name = "Map" /\ num \notin {0, 2}) => cvRes = FALSE
       /\ (name = "List" /\ num \in {0, 1}) => cvRes = TRUE
       /\ (name = "Map" /\ num \in {0, 2}) => cvRes = TRUE
       /\ (name \notin {"List", "Map"}) => cvRes = TRUE

C6_Witness ==
  /\ pc = "cv_done" /\ tspec.unresolved_name = "java.util.List"
  /\ GetName(tspec) = "List" /\ NumTypeParams(tspec) = 2 /\ cvRes = FALSE

-----------------------------------------------------------------------------
(* aidl.cpp: method-ID assignment *)

kMinUserSetMethodId == 0
kMaxUserSetMethodId == 16777214

\* user-written ids the inputs are drawn from: both ends of the range and
\* their outside neighbours
IdChoices == {-1, 0, 1, kMaxUserSetMethodId, kMaxUserSetMethodId + 1}

\* AidlMethod as constructed: without an id (has_id_ = false, id_ = 0) or
\* with a user-written id (has_id_ = true)
MethodNoId == Method("m", FALSE, VoidType, <<>>, FALSE, 0)
MethodWithId(n) == Method("m", FALSE, VoidType, <<>>, TRUE, n)
MethodChoices == {MethodNoId} \cup {MethodWithId(n) : n \in IdChoices}

IdOutOfBounds_offByOne(id) == id < kMinUserSetMethodId \/ id > kMaxUserSetMethodId + 1
\* aidl.cpp:362-363
IdOutOfBounds(id) == id < kMinUserSetMethodId \/ id > kMaxUserSetMethodId

IdsMixed_never(hasAssignedIds, hasUnassignedIds) == FALSE
\* aidl.cpp:374
IdsMixed(hasAssignedIds, hasUnassignedIds) == hasAssignedIds /\ hasUnassignedIds

AssignNewIds_fromOne(items) ==
  [i \in 1..Len(items) |-> [items[i] EXCEPT !.id = i]]
\* aidl.cpp:381-386: newId starts at 0 and is post-incremented per method
AssignNewIds(items) ==
  [i \in 1..Len(items) |-> [items[i] EXCEPT !.id = i - 1]]

\* aidl.cpp:352-378: the checking loop; i is the 1-based position of item
RECURSIVE CheckIdsLoop(_, _, _, _, _)
CheckIdsLoop(items, i, usedIds, hasUnassignedIds, hasAssignedIds) ==
  IF i > Len(items)
  THEN [ret |-> 0, errItem |-> 0, errKind |-> "none",
        hasUnassignedIds |-> hasUnassignedIds]
  ELSE
    LET item == items[i]
        hasA == hasAssignedIds \/ item.has_id
        hasU == hasUnassignedIds \/ ~item.has_id
    IN IF item.has_id /\ item.id \in usedIds
       THEN [ret |-> 1, errItem |-> i, errKind |-> "duplicate",
             hasUnassignedIds |-> hasUnassignedIds]
       ELSE IF item.has_id /\ IdOutOfBounds(item.id)
       THEN [ret |-> 1, errItem |-> i, errKind |-> "out_of_bounds",
             hasUnassignedIds |-> hasUnassignedIds]
       ELSE IF IdsMixed(hasA, hasU)
       THEN [ret |-> 1, errItem |-> 0, errKind |-> "mixed",
             hasUnassignedIds |-> hasU]
       ELSE CheckIdsLoop(items, i + 1,
                         IF item.has_id THEN usedIds \cup {item.id} ELSE usedIds,
                         hasU, hasA)

check_and_assign_method_ids_assignsFirst(items) ==
  LET r == CheckIdsLoop(items, 1, {}, FALSE, FALSE)
  IN [ret |-> r.ret, errItem |-> r.errItem, errKind |-> r.errKind,
      items |-> IF \E i \in 1..Len(items) : ~items[i].has_id
                THEN AssignNewIds(items) ELSE items]
\* aidl.cpp:344-390
check_and_assign_method_ids(items) ==
  LET r == CheckIdsLoop(items, 1, {}, FALSE, FALSE)
  IN [ret |-> r.ret, errItem |-> r.errItem, errKind |-> r.errKind,
      items |-> IF r.ret = 0 /\ r.hasUnassignedIds
                THEN AssignNewIds(items) ELSE items]

RECURSIVE SeqsUpTo(_, _)
SeqsUpTo(S, n) ==
  IF n = 0 THEN {<<>>}
  ELSE LET shorter == SeqsUpTo(S, n - 1)
       IN shorter \cup {Append(s, x) : s \in {t \in shorter : Len(t) = n - 1}, x \in S}

InitMethodIds ==
  /\ pc = "ids_call"
  /\ ifaceOneway = FALSE
  /\ methods \in SeqsUpTo(MethodChoices, MaxMethods)
  /\ methodsIn = methods
  /\ idRes = NoIdRes
  /\ ctRes = NoCtRes
  /\ IdleExceptIface

CheckAndAssignMethodIds ==
  /\ pc = "ids_call"
  /\ LET r == check_and_assign_method_ids(methods)
     IN /\ methods' = r.items
        /\ idRes' = [ret |-> r.ret, errItem |-> r.errItem, errKind |-> r.errKind]
  /\ pc' = "ids_done"
  /\ UNCHANGED <<ifaceOneway, methodsIn, ctRes, notIface>>

NextMethodIds == CheckAndAssignMethodIds

SpecMethodIds == InitMethodIds /\ [][NextMethodIds]_vars

(* Properties of method-ID assignment *)

IdsDone == pc = "ids_done"
NoneHasId == \A i \in 1..Len(methodsIn) : ~methodsIn[i].has_id
AllHaveId == \A i \in 1..Len(methodsIn) : methodsIn[i].has_id
IdsOf(ms) == {ms[i].id : i \in 1..Len(ms)}
InUserRange(id) == id \in 0..16777214

\* C1: with N methods and no user-assigned id the call succeeds, the i-th
\* method in declaration order (counted from 0) has id i, and the set of ids
\* is exactly {0,...,N-1}.
C1_AutoIdsFollowDeclarationOrder ==
  (IdsDone /\ NoneHasId) =>
    /\ idRes.ret = 0
    /\ Len(methods) = Len(methodsIn)
    /\ \A i \in 1..Len(methods) : methods[i].id = i - 1
    /\ IdsOf(methods) = 0..(Len(methodsIn) - 1)

C1_Witness ==
  IdsDone /\ NoneHasId /\ Len(methodsIn) = MaxMethods /\ idRes.ret = 0

\* C2: an interface with at least one method that has a user-assigned id and
\* at least one that has none fails, whatever the counts and the order.
C2_MixedIdsFail ==
  (IdsDone /\ (\E i \in 1..Len(methodsIn) : methodsIn[i].has_id)
           /\ (\E j \in 1..Len(methodsIn) : ~methodsIn[j].has_id)) =>
    idRes.ret = 1

C2_Witness ==
  /\ IdsDone /\ Len(methodsIn) >= 3
  /\ ~methodsIn[1].has_id /\ ~methodsIn[2].has_id /\ methodsIn[3].has_id
  /\ idRes.ret = 1 /\ idRes.errKind = "mixed"

\* C3: when every method has a user-assigned id, the call fails exactly when
\* some id is outside [0, 16777214] or two methods share an id, the error is
\* attached to the offending method (the out-of-range one, or the later of
\* two duplicates), and it succeeds when all ids are distinct and in range.
C3_UserIdsRangeAndUniqueness ==
  (IdsDone /\ AllHaveId) =>
    LET n == Len(methodsIn)
        bad == \/ \E i \in 1..n : ~InUserRange(methodsIn[i].id)
               \/ \E i, j \in 1..n : i < j /\ methodsIn[i].id = methodsIn[j].id
    IN /\ (idRes.ret = 1) <=> bad
       /\ (idRes.ret = 0) <=> ~bad
       /\ idRes.ret = 1 =>
            /\ idRes.errItem \in 1..n
            /\ idRes.errKind \in {"duplicate", "out_of_bounds"}
            /\ idRes.errKind = "out_of_bounds" =>
                 ~InUserRange(methodsIn[idRes.errItem].id)
            /\ idRes.errKind = "duplicate" =>
                 \E j \in 1..(idRes.errItem - 1) :
                    methodsIn[j].id = methodsIn[idRes.errItem].id

C3_Witness ==
  /\ IdsDone /\ AllHaveId /\ Len(methodsIn) = 3
  /\ methodsIn[1].id = kMaxUserSetMethodId
  /\ methodsIn[2].id = 0
  /\ methodsIn[3].id = kMaxUserSetMethodId
  /\ idRes.ret = 1 /\ idRes.errItem = 3 /\ idRes.errKind = "duplicate"

-----------------------------------------------------------------------------
(* aidl.cpp: check_types for an interface *)

\* TypeNamespace::MaybeAddContainerType: the backend's answer for the type
MaybeAddContainerType(ts) == ts.ns # "bad_container"

\* TypeNamespace::GetReturnType / GetArgType: non-null iff the backend knows
\* a language type for the specifier
HasLanguageType(ts) == ts.ns = "ok"

\* AidlTypeSpecifier::SetLanguageType, aidl_language.h:136-138
SetLanguageType(ts) ==
  [ts EXCEPT !.language_type = IF HasLanguageType(ts) THEN "set" ELSE "null"]

\* aidl.cpp:200
IsOnewayMethod(m, ifaceIsOneway) == m.oneway \/ ifaceIsOneway

\* aidl.cpp:218
OnewayReturnsValue(oneway, m) == oneway /\ GetName(m.type) # "void"

\* aidl.cpp:241
OnewayHasOut(oneway, arg) == oneway /\ IsOut(arg)

\* aidl.cpp:225-237: whether the argument sets err for its type
ArgTypeBad(arg) ==
  \/ ~MaybeAddContainerType(arg.type)
  \/ ~CheckValid(arg.type)
  \/ ~HasLanguageType(arg.type)

\* aidl.cpp:241-244: the reports of the argument loop of method i, in order
RECURSIVE ArgReports(_, _, _, _)
ArgReports(args, j, oneway, i) ==
  IF j > Len(args) THEN <<>>
  ELSE (IF OnewayHasOut(oneway, args[j])
        THEN <<[item |-> i, kind |-> "oneway_out"]>> ELSE <<>>)
       \o ArgReports(args, j + 1, oneway, i)

NameSeen_never(method_names, name) == FALSE
\* aidl.cpp:247-249: method_names.find(name) != method_names.end()
NameSeen(method_names, name) == name \in DOMAIN method_names

\* aidl.cpp:199-256: the method loop; method_names maps a name to the index
\* of the first method that has it
RECURSIVE CheckTypesLoop(_, _, _, _, _, _)
CheckTypesLoop(ms, i, ifaceIsOneway, method_names, err, reports) ==
  IF i > Len(ms) THEN [err |-> err, reports |-> reports, methods |-> ms]
  ELSE
    LET m == ms[i]
        oneway == IsOnewayMethod(m, ifaceIsOneway)
        retBad == \/ ~MaybeAddContainerType(m.type)
                  \/ ~CheckValid(m.type)
                  \/ ~HasLanguageType(m.type)
        retReport == IF OnewayReturnsValue(oneway, m)
                     THEN <<[item |-> i, kind |-> "oneway_return"]>> ELSE <<>>
        argsBad == \E j \in 1..Len(m.arguments) : ArgTypeBad(m.arguments[j])
        argReports == ArgReports(m.arguments, 1, oneway, i)
        redefined == NameSeen(method_names, m.name)
        dupReport == IF redefined
                     THEN <<[item |-> i, kind |-> "redefine"]>> ELSE <<>>
        newErr == IF \/ retBad \/ argsBad \/ redefined
                     \/ retReport # <<>> \/ argReports # <<>>
                  THEN 1 ELSE err
        m2 == [m EXCEPT !.type = SetLanguageType(m.type),
                        !.arguments = [j \in 1..Len(m.arguments) |->
                           [m.arguments[j] EXCEPT
                              !.type = SetLanguageType(m.arguments[j].type)]]]
        names2 == IF redefined THEN method_names
                  ELSE [n \in DOMAIN method_names \cup {m.name} |->
                          IF n = m.name THEN i ELSE method_names[n]]
    IN CheckTypesLoop([ms EXCEPT ![i] = m2], i + 1, ifaceIsOneway, names2,
                      newErr, reports \o retReport \o argReports \o dupReport)

\* aidl.cpp:189-258; utf8Conflict is c->IsUtf8() && c->IsUtf8InCpp()
check_types(ms, ifaceIsOneway, utf8Conflict) ==
  CheckTypesLoop(ms, 1, ifaceIsOneway, <<>>,
                 IF utf8Conflict THEN 1 ELSE 0, <<>>)

\* the shapes the checked interfaces are built from
UnknownType == TypeSpec("Foo", "a.Foo", FALSE, FALSE, <<>>, "unknown")
ReturnTypeChoices == {VoidType, IntType, UnknownType}
ArgListChoices ==
  {<<>>, <<Argument(IN_DIR, IntType)>>, <<Argument(OUT_DIR, IntType)>>,
   <<Argument(IN_DIR, IntType), Argument(INOUT_DIR, IntType)>>}
CheckedMethodChoices ==
  {Method(n, ow, rt, al, FALSE, 0) :
     n \in {"foo", "bar"}, ow \in BOOLEAN, rt \in ReturnTypeChoices,
     al \in ArgListChoices}

InitCheckTypes ==
  /\ pc = "ct_call"
  /\ ifaceOneway \in BOOLEAN
  /\ methods \in SeqsUpTo(CheckedMethodChoices, MaxCheckedMethods)
  /\ methodsIn = methods
  /\ idRes = NoIdRes
  /\ ctRes = NoCtRes
  /\ IdleExceptIface

CheckTypes ==
  /\ pc = "ct_call"
  /\ LET r == check_types(methods, ifaceOneway, FALSE)
     IN /\ methods' = r.methods
        /\ ctRes' = [err |-> r.err, reports |-> r.reports]
  /\ pc' = "ct_done"
  /\ UNCHANGED <<ifaceOneway, methodsIn, idRes, notIface>>

NextCheckTypes == CheckTypes

SpecCheckTypes == InitCheckTypes /\ [][NextCheckTypes]_vars

(* Properties of check_types *)

OnewayKinds == {"oneway_return", "oneway_out"}
ReportedOneway(i) ==
  \E k \in 1..Len(ctRes.reports) :
     ctRes.reports[k].item = i /\ ctRes.reports[k].kind \in OnewayKinds
DeclaredOneway(i) == methodsIn[i].oneway \/ ifaceOneway
HasOutOrInout(i) ==
  \E j \in 1..Len(methodsIn[i].arguments) :
     methodsIn[i].arguments[j].direction \in {OUT_DIR, INOUT_DIR}
\* nothing but the oneway rules could make the interface fail
OtherwiseClean ==
  /\ \A i \in 1..Len(methodsIn) :
        /\ methodsIn[i].type.ns = "ok"
        /\ \A j \in 1..Len(methodsIn[i].arguments) :
              methodsIn[i].arguments[j].type.ns = "ok"
  /\ \A i, j \in 1..Len(methodsIn) : i # j => methodsIn[i].name # methodsIn[j].name

\* C5: a method is reported as a oneway violation (and validation fails) iff
\* it is oneway by its own flag or the interface's and either returns
\* non-void or has an out/inout argument; a method that is oneway by neither
\* flag never fails for these shapes.
C5_OnewayConstraint ==
  pc = "ct_done" =>
    /\ \A i \in 1..Len(methodsIn) :
          ReportedOneway(i) <=>
            (DeclaredOneway(i) /\ (GetName(methodsIn[i].type) # "void" \/ HasOutOrInout(i)))
    /\ (\E i \in 1..Len(methodsIn) : ReportedOneway(i)) => ctRes.err = 1
    /\ (OtherwiseClean /\ \A i \in 1..Len(methodsIn) : ~DeclaredOneway(i))
          => ctRes.err = 0

C5_Witness ==
  /\ pc = "ct_done" /\ Len(methodsIn) = 2 /\ ifaceOneway
  /\ ~methodsIn[1].oneway /\ GetName(methodsIn[1].type) = "void"
  /\ Len(methodsIn[1].arguments) = 2
  /\ methodsIn[1].arguments[2].direction = INOUT_DIR
  /\ ReportedOneway(1) /\ ~ReportedOneway(2) /\ ctRes.err = 1

-----------------------------------------------------------------------------
(* aidl_const_expressions.cpp: AidlConstantValue::As *)

\* a rendered string: the empty string is <<>>, any other string is one
\* element, the decorator's output
EmptyString == [fatal |-> FALSE, str |-> <<>>]
NonEmpty(decorated) == [fatal |-> FALSE, str |-> <<decorated>>]
\* AIDL_FATAL / LOG(FATAL): the process aborts, nothing is returned
Fatal == [fatal |-> TRUE, str |-> <<>>]

\* the text handed to the decorator
Raw(neg, digits, text, fsuffix, elems) ==
  [neg |-> neg, digits |-> digits, text |-> text, fsuffix |-> fsuffix,
   elems |-> elems]
RawNumber(neg, digits) == Raw(neg, digits, "", FALSE, <<>>)
RawOfValue(v) == Raw(v.neg, v.digits, v.text, v.fsuffix, <<>>)
\* a string that was itself returned by As (possibly empty)
RawOfString(str) == Raw(FALSE, <<>>, "", FALSE, str)

\* the ConstantValueDecorator callback: the backend's formatting of a raw
\* text for a type, never empty
Decorator(type, raw) ==
  [decorated_for |-> GetName(type), is_array |-> type.is_array, raw |-> raw]

\* AidlTypeSpecifier::ArrayBase as used at aidl_const_expressions.cpp:118
ArrayBase(type) == [type EXCEPT !.is_array = FALSE]

\* android::base::ParseDouble / ParseFloat on the literal's text: out of
\* range texts fail (1e999 for both, 1e40 for float)
ParseDouble(text) == text # "1e999"
ParseFloat(text) == text \notin {"1e40", "1e999"}

\* std::to_string of the parsed double or float: "%f", six decimals
ToStringFloating(text) ==
  IF text = "1.5" THEN "1.500000"
  ELSE IF text = "1e40"
  THEN "10000000000000000303786028427003666890752.000000"
  ELSE "inf"

\* aidl_const_expressions.cpp:192-194: the message calls ToString(type_),
\* which is LOG(FATAL) for an ERROR literal (lines 216-218)
MismatchError(lit) == IF lit.type = "ERROR" THEN Fatal ELSE EmptyString

\* aidl_const_expressions.cpp:195-197
ParseError == EmptyString

WidthOf(type_string) ==
  IF type_string = "byte" THEN 8 ELSE IF type_string = "int" THEN 32 ELSE 64

\* aidl_const_expressions.cpp:155,160,165 and 172,176,180
IsIntegerTypeName(type_string) == type_string \in {"byte", "int", "long"}

\* aidl_const_expressions.cpp:152-170
AsHexidecimal(lit, type) ==
  LET type_string == GetName(type)
  IN IF IsIntegerTypeName(type_string)
     THEN LET p == ParseUint(lit.value.digits, WidthOf(type_string))
          IN IF ~p.ok THEN ParseError
             ELSE LET s == SignedToString(p.pattern)
                  IN NonEmpty(Decorator(type, RawNumber(s.neg, s.digits)))
     ELSE MismatchError(lit)

\* aidl_const_expressions.cpp:171-184
AsIntegral(lit, type) ==
  LET type_string == GetName(type)
  IN IF IsIntegerTypeName(type_string)
     THEN IF ~ParseInt(lit.value.neg, lit.value.digits, WidthOf(type_string))
          THEN ParseError
          ELSE NonEmpty(Decorator(type, RawOfValue(lit.value)))
     ELSE MismatchError(lit)

\* aidl_const_expressions.cpp:136-151
AsFloating(lit, type) ==
  LET type_string == GetName(type)
      is_float_literal == lit.value.fsuffix
      raw_value == lit.value.text
  IN IF type_string = "double"
     THEN IF ~ParseDouble(raw_value) THEN ParseError
          ELSE NonEmpty(Decorator(type,
                 Raw(FALSE, <<>>, ToStringFloating(raw_value), FALSE, <<>>)))
     ELSE IF is_float_literal /\ type_string = "float"
     THEN IF ~ParseFloat(raw_value) THEN ParseError
          ELSE NonEmpty(Decorator(type,
                 Raw(FALSE, <<>>, ToStringFloating(raw_value), TRUE, <<>>)))
     ELSE MismatchError(lit)

AsText_anyType(lit, type, wanted) == NonEmpty(Decorator(type, RawOfValue(lit.value)))
\* aidl_const_expressions.cpp:130-135 and 185-187
AsText(lit, type, wanted) ==
  IF GetName(type) = wanted
  THEN NonEmpty(Decorator(type, RawOfValue(lit.value)))
  ELSE MismatchError(lit)

\* aidl_const_expressions.cpp:98-198
RECURSIVE As(_, _)
As(lit, type) ==
  IF IsGeneric(type) THEN EmptyString
  ELSE IF (lit.type = "ARRAY") # type.is_array THEN MismatchError(lit)
  ELSE IF lit.type = "ARRAY"
  THEN LET array_base == ArrayBase(type)
           raws == [i \in 1..Len(lit.values) |-> As(lit.values[i], array_base)]
       IN IF \E i \in 1..Len(raws) : raws[i].fatal THEN Fatal
          ELSE IF \E i \in 1..Len(raws) : raws[i].str = <<>> THEN EmptyString
          ELSE NonEmpty(Decorator(type,
                 Raw(FALSE, <<>>, "{}", FALSE,
                     [i \in 1..Len(raws) |->
                        Decorator(array_base, RawOfString(raws[i].str))])))
  ELSE IF lit.type = "BOOLEAN" THEN AsText(lit, type, "boolean")
  ELSE IF lit.type = "CHARACTER" THEN AsText(lit, type, "char")
  ELSE IF lit.type = "FLOATING" THEN AsFloating(lit, type)
  ELSE IF lit.type = "HEXIDECIMAL" THEN AsHexidecimal(lit, type)
  ELSE IF lit.type = "INTEGRAL" THEN AsIntegral(lit, type)
  ELSE IF lit.type = "STRING" THEN AsText(lit, type, "String")
  ELSE Fatal

(* The literals and types the rendering is exercised on *)

MaxArrayLen == 2

\* n hexadecimal digits: first, then rest repeated
HexDigits(first, rest, n) == [i \in 1..n |-> IF i = 1 THEN first ELSE rest]
\* lengths around the 2, 8 and 16 digits of the three widths
HexLengths == {1, 2, 3, 8, 9, 16, 17}
HexLiterals ==
  {Literal("HEXIDECIMAL", Value(FALSE, HexDigits(f, r, n), "", FALSE), <<>>) :
     f \in {0, 1, 7, 8, 15}, r \in {0, 15}, n \in HexLengths}

\* decimal texts at the edges of the three signed ranges
DecimalTexts ==
  {<<0>>, <<5>>, <<1, 2, 7>>, <<1, 2, 8>>, <<1, 2, 9>>,
   <<2, 1, 4, 7, 4, 8, 3, 6, 4, 7>>, <<2, 1, 4, 7, 4, 8, 3, 6, 4, 8>>,
   <<2, 1, 4, 7, 4, 8, 3, 6, 4, 9>>,
   <<9, 2, 2, 3, 3, 7, 2, 0, 3, 6, 8, 5, 4, 7, 7, 5, 8, 0, 7>>,
   <<9, 2, 2, 3, 3, 7, 2, 0, 3, 6, 8, 5, 4, 7, 7, 5, 8, 0, 8>>,
   <<9, 2, 2, 3, 3, 7, 2, 0, 3, 6, 8, 5, 4, 7, 7, 5, 8, 0, 9>>}
IntegralLiterals ==
  {Literal("INTEGRAL", Value(neg, ds, "", FALSE), <<>>) :
     neg \in BOOLEAN, ds \in DecimalTexts}

FloatingLiterals ==
  {Literal("FLOATING", Value(FALSE, <<>>, t, f), <<>>) :
     t \in {"1.5", "1e40", "1e999"}, f \in BOOLEAN}

TextLiterals ==
  {Literal("BOOLEAN", Value(FALSE, <<>>, "true", FALSE), <<>>),
   Literal("CHARACTER", Value(FALSE, <<>>, "'a'", FALSE), <<>>),
   Literal("STRING", Value(FALSE, <<>>, "abc", FALSE), <<>>)}

\* what the factories return for an invalid character or string
ErrorLiteral == Literal("ERROR", Value(FALSE, <<>>, "", FALSE), <<>>)

ElementLiterals ==
  {Literal("HEXIDECIMAL", Value(FALSE, <<15, 15>>, "", FALSE), <<>>),
   Literal("HEXIDECIMAL", Value(FALSE, <<1, 0, 0>>, "", FALSE), <<>>),
   Literal("INTEGRAL", Value(FALSE, <<5>>, "", FALSE), <<>>),
   Literal("STRING", Value(FALSE, <<>>, "abc", FALSE), <<>>),
   ErrorLiteral}
ArrayLiterals ==
  {Literal("ARRAY", Value(FALSE, <<>>, "", FALSE), vs) :
     vs \in SeqsUpTo(ElementLiterals, MaxArrayLen)}

LiteralChoices ==
  HexLiterals \cup IntegralLiterals \cup FloatingLiterals \cup TextLiterals
    \cup {ErrorLiteral} \cup ArrayLiterals

TypeNameChoices ==
  {"byte", "int", "long", "boolean", "char", "float", "double", "String", "a.Foo"}
ConstTypeChoices ==
  {TypeSpec(n, n, arr, FALSE, <<>>, "ok") : n \in TypeNameChoices, arr \in BOOLEAN}
    \cup {TypeSpec("List", "List", FALSE, TRUE, <<"int">>, "ok"),
          TypeSpec("int", "int", FALSE, TRUE, <<"int">>, "ok")}

InitConst ==
  /\ pc = "as_call"
  /\ literal \in LiteralChoices
  /\ ltype \in ConstTypeChoices
  /\ asRes = NoAsRes
  /\ IdleExceptConst

AsCall ==
  /\ pc = "as_call"
  /\ asRes' = As(literal, ltype)
  /\ pc' = "as_done"
  /\ UNCHANGED <<literal, ltype, notConst>>

NextConst == AsCall

SpecConst == InitConst /\ [][NextConst]_vars

(* Arithmetic on printed decimal numbers, for stating what a rendering *)
(* should be without going through bit patterns *)

\* the decimal number ds times m plus a, for small m and a
RECURSIVE DecMulAdd(_, _, _)
DecMulAdd(ds, m, a) ==
  IF ds = <<>> THEN (IF a = 0 THEN <<>> ELSE DecMulAdd(<<>>, m, a \div 10) \o <<a % 10>>)
  ELSE LET n == Len(ds)
           cur == ds[n] * m + a
       IN Append(DecMulAdd(SubSeq(ds, 1, n - 1), m, cur \div 10), cur % 10)

\* the value of a hexadecimal digit string, in decimal
RECURSIVE HexValue(_)
HexValue(hs) ==
  IF hs = <<>> THEN <<0>>
  ELSE LET n == Len(hs)
       IN StripZeros(DecMulAdd(HexValue(SubSeq(hs, 1, n - 1)), 16, hs[n]))

\* a minus b for decimal numbers of equal length with a >= b
RECURSIVE DecSubAligned(_, _, _)
DecSubAligned(a, b, borrow) ==
  IF a = <<>> THEN <<>>
  ELSE LET n == Len(a)
           d == a[n] - b[n] - borrow
       IN Append(DecSubAligned(SubSeq(a, 1, n - 1), SubSeq(b, 1, n - 1),
                               IF d < 0 THEN 1 ELSE 0),
                 IF d < 0 THEN d + 10 ELSE d)
DecSub(a, b) ==
  LET n == IF Len(a) > Len(b) THEN Len(a) ELSE Len(b)
      pad(x) == [i \in 1..(n - Len(x)) |-> 0] \o x
  IN StripZeros(DecSubAligned(pad(a), pad(b), 0))

\* 2^(w-1) and 2^w for the widths 8, 32 and 64
HalfRange(w) ==
  IF w = 8 THEN <<1, 2, 8>>
  ELSE IF w = 32 THEN <<2, 1, 4, 7, 4, 8, 3, 6, 4, 8>>
  ELSE <<9, 2, 2, 3, 3, 7, 2, 0, 3, 6, 8, 5, 4, 7, 7, 5, 8, 0, 8>>
FullRange(w) ==
  IF w = 8 THEN <<2, 5, 6>>
  ELSE IF w = 32 THEN <<4, 2, 9, 4, 9, 6, 7, 2, 9, 6>>
  ELSE <<1, 8, 4, 4, 6, 7, 4, 4, 0, 7, 3, 7, 0, 9, 5, 5, 1, 6, 1, 6>>

DeclaredWidth(type) ==
  IF GetName(type) = "byte" THEN 8 ELSE IF GetName(type) = "int" THEN 32 ELSE 64

IsScalarIntegerType(type) ==
  /\ ~IsGeneric(type)
  /\ ~type.is_array
  /\ GetName(type) \in {"byte", "int", "long"}

\* C7: a hexadecimal literal of value v rendered against byte, int or long
\* (width w) gives v when v < 2^(w-1), v - 2^w when 2^(w-1) <= v < 2^w, and
\* the empty string when v >= 2^w.
C7_HexTwosComplement ==
  (pc = "as_done" /\ literal.type = "HEXIDECIMAL" /\ IsScalarIntegerType(ltype)) =>
    LET v == HexValue(literal.value.digits)
        w == DeclaredWidth(ltype)
    IN IF DecLess(v, HalfRange(w))
       THEN asRes = NonEmpty(Decorator(ltype, RawNumber(FALSE, v)))
       ELSE IF DecLess(v, FullRange(w))
       THEN asRes = NonEmpty(Decorator(ltype, RawNumber(TRUE, DecSub(FullRange(w), v))))
       ELSE asRes = EmptyString

\* 0xFFFFFFFF rendered against int is -1
C7_Witness ==
  /\ pc = "as_done"
  /\ literal.type = "HEXIDECIMAL"
  /\ literal.value.digits = HexDigits(15, 15, 8)
  /\ IsScalarIntegerType(ltype) /\ GetName(ltype) = "int"
  /\ asRes = NonEmpty(Decorator(ltype, RawNumber(TRUE, <<1>>)))

KindMatchesTypeName(kind, name) ==
  \/ kind = "BOOLEAN" /\ name = "boolean"
  \/ kind = "CHARACTER" /\ name = "char"
  \/ kind = "FLOATING" /\ name \in {"float", "double"}
  \/ kind \in {"HEXIDECIMAL", "INTEGRAL"} /\ name \in {"byte", "int", "long"}
  \/ kind = "STRING" /\ name = "String"

IntegralOutOfRange(lit, type) ==
  /\ lit.type = "INTEGRAL"
  /\ GetName(type) \in {"byte", "int", "long"}
  /\ IF lit.value.neg
     THEN DecLess(HalfRange(DeclaredWidth(type)), lit.value.digits)
     ELSE ~DecLess(lit.value.digits, HalfRange(DeclaredWidth(type)))

\* the cases the claim lists for a literal that is not an array, against a
\* type that is not generic
ListedScalarCase(lit, type) ==
  \/ (lit.type = "ARRAY") # type.is_array
  \/ ~KindMatchesTypeName(lit.type, GetName(type))
  \/ IntegralOutOfRange(lit, type)

ListedCase(lit, type) ==
  \/ IsGeneric(type)
  \/ (lit.type = "ARRAY") # type.is_array
  \/ IF lit.type = "ARRAY"
     THEN \E i \in 1..Len(lit.values) : ListedScalarCase(lit.values[i], ArrayBase(type))
     ELSE ListedScalarCase(lit, type)

\* C8 as stated: As returns the empty string when the type is generic, on an
\* array/non-array mismatch, on a kind/type-name mismatch, on an integral
\* literal out of the signed range, or when an array element fails; in every
\* other case it returns the decorator's output.
C8_AsStated ==
  pc = "as_done" =>
    IF ListedCase(literal, ltype)
    THEN asRes = EmptyString
    ELSE ~asRes.fatal /\ asRes.str # <<>>

HexOutOfRange(lit, type) ==
  /\ lit.type = "HEXIDECIMAL"
  /\ GetName(type) \in {"byte", "int", "long"}
  /\ ~DecLess(HexValue(lit.value.digits), FullRange(DeclaredWidth(type)))

FloatingRejected(lit, type) ==
  /\ lit.type = "FLOATING"
  /\ \/ GetName(type) = "float" /\ ~lit.value.fsuffix
     \/ GetName(type) = "float" /\ lit.value.text \in {"1e40", "1e999"}
     \/ GetName(type) = "double" /\ lit.value.text = "1e999"

FailsScalar(lit, type) ==
  \/ ListedScalarCase(lit, type)
  \/ HexOutOfRange(lit, type)
  \/ FloatingRejected(lit, type)

\* an ERROR literal reaches the switch or the mismatch message
ReachesErrorLiteral(lit, type) ==
  /\ ~IsGeneric(type)
  /\ \/ lit.type = "ERROR"
     \/ /\ lit.type = "ARRAY"
        /\ type.is_array
        /\ \E i \in 1..Len(lit.values) : lit.values[i].type = "ERROR"

FailsToRender(lit, type) ==
  \/ IsGeneric(type)
  \/ (lit.type = "ARRAY") # type.is_array
  \/ IF lit.type = "ARRAY"
     THEN \E i \in 1..Len(lit.values) : FailsScalar(lit.values[i], ArrayBase(type))
     ELSE FailsScalar(lit, type)

\* C8, amended: when an ERROR literal (the literal itself, or an element of
\* an array rendered against an array type) meets a type that is not generic,
\* As aborts; otherwise it returns the empty string in the listed cases and
\* also for a hexadecimal literal of 2^w or more, a floating literal without
\* the f suffix against float, and a floating literal out of the range of
\* float or double; in every remaining case it returns the decorator's
\* output for the declared type.
C8_RenderOutcomes ==
  pc = "as_done" =>
    IF ReachesErrorLiteral(literal, ltype) THEN asRes = Fatal
    ELSE IF FailsToRender(literal, ltype) THEN asRes = EmptyString
    ELSE /\ ~asRes.fatal
         /\ Len(asRes.str) = 1
         /\ asRes.str[1].decorated_for = GetName(ltype)
         /\ asRes.str[1].is_array = ltype.is_array

\* 0x100 against byte is none of the listed cases and renders as the empty string
C8_Witness ==
  /\ pc = "as_done"
  /\ literal.type = "HEXIDECIMAL"
  /\ literal.value.digits = <<1, 0, 0>>
  /\ IsScalarIntegerType(ltype) /\ GetName(ltype) = "byte"
  /\ ~ListedCase(literal, ltype)
  /\ asRes = EmptyString

-----------------------------------------------------------------------------
(* aidl_typenames.cpp: the registry of defined types *)

\* android::base::Join
RECURSIVE Join(_, _)
Join(parts, sep) ==
  IF parts = <<>> THEN ""
  ELSE IF Len(parts) = 1 THEN parts[1]
  ELSE parts[1] \o sep \o Join(Tail(parts), sep)

\* aidl_language.cpp:400-402
GetPackage(type) == Join(type.package, ".")

\* aidl_language.cpp:404-409
GetCanonicalName(type) ==
  IF type.package = <<>> THEN type.name
  ELSE GetPackage(type) \o "." \o type.name

\* a std::map is a set of (key, mapped value) entries
Entry(name, type) == [key |-> name, type |-> type]

Contains_never(map, name) == FALSE
\* map.find(name) != map.end()
Contains(map, name) == \E e \in map : e.key = name

\* std::map::insert: no entry is added when the key is there already
MapInsert(map, name, type) ==
  IF \E e \in map : e.key = name THEN map ELSE map \cup {Entry(name, type)}

\* aidl_typenames.cpp:62-69
AddDefinedTypeCall(defs, type) ==
  LET name == GetCanonicalName(type)
  IN IF Contains(defs, name) THEN [ret |-> FALSE, map |-> defs]
     ELSE [ret |-> TRUE, map |-> MapInsert(defs, name, type)]

AddPreprocessedTypeCall_noLookup(preps, type) ==
  [ret |-> TRUE, map |-> preps \cup {Entry(GetCanonicalName(type), type)}]
\* aidl_typenames.cpp:71-78
AddPreprocessedTypeCall(preps, type) ==
  LET name == GetCanonicalName(type)
  IN IF Contains(preps, name) THEN [ret |-> FALSE, map |-> preps]
     ELSE [ret |-> TRUE, map |-> MapInsert(preps, name, type)]

\* the types handed to the registry: two kinds of type under each of four
\* canonical names
TypeChoices ==
  {DefinedType(pkg, n, k) :
     pkg \in {<<>>, <<"a">>}, n \in {"Foo", "Bar"}, k \in {"interface", "parcelable"}}

InitTypenames ==
  /\ pc = "registry"
  /\ defined_types_ = {}
  /\ preprocessed_types_ = {}
  /\ lastAdd = NoAdd
  /\ IdleExceptRegistry

AddDefinedType ==
  /\ pc = "registry"
  /\ \E type \in TypeChoices :
        LET r == AddDefinedTypeCall(defined_types_, type)
        IN /\ defined_types_' = r.map
           /\ lastAdd' = [op |-> "AddDefinedType", type |-> type, ret |-> r.ret]
  /\ UNCHANGED <<pc, preprocessed_types_, notRegistry>>

AddPreprocessedType ==
  /\ pc = "registry"
  /\ \E type \in TypeChoices :
        LET r == AddPreprocessedTypeCall(preprocessed_types_, type)
        IN /\ preprocessed_types_' = r.map
           /\ lastAdd' = [op |-> "AddPreprocessedType", type |-> type, ret |-> r.ret]
  /\ UNCHANGED <<pc, defined_types_, notRegistry>>

NextTypenames == AddDefinedType \/ AddPreprocessedType

SpecTypenames == InitTypenames /\ [][NextTypenames]_vars

\* what one call did: the call's own tier before and after, the other tier
\* before and after
AddOutcome ==
  LET call == lastAdd'
      name == GetCanonicalName(call.type)
      own == IF call.op = "AddDefinedType" THEN defined_types_ ELSE preprocessed_types_
      ownAfter == IF call.op = "AddDefinedType" THEN defined_types_' ELSE preprocessed_types_'
      other == IF call.op = "AddDefinedType" THEN preprocessed_types_ ELSE defined_types_
      otherAfter == IF call.op = "AddDefinedType" THEN preprocessed_types_' ELSE defined_types_'
  IN /\ (\E e \in own : e.key = name) =>
          /\ call.ret = FALSE
          /\ ownAfter = own
          /\ otherAfter = other
     /\ call.ret = TRUE =>
          /\ ownAfter \ own = {Entry(name, call.type)}
          /\ own \ ownAfter = {}
          /\ Cardinality(ownAfter) = Cardinality(own) + 1
          /\ otherAfter = other

CanonicalNames == {GetCanonicalName(t) : t \in TypeChoices}

\* C10 as stated: no canonical name is held by two entries, counting the
\* defined tier and the preprocessed tier together.
C10_AsStated ==
  pc = "registry" =>
    \A name \in CanonicalNames :
      Cardinality({e \in defined_types_ : e.key = name})
        + Cardinality({e \in preprocessed_types_ : e.key = name}) <= 1

\* C10, amended: each tier holds at most one entry under a canonical name,
\* every entry is keyed by the canonical name of its type, and a canonical
\* name may be held once in each tier, so by at most two entries in all.
C10_UniquePerTier ==
  pc = "registry" =>
    /\ \A tier \in {defined_types_, preprocessed_types_} :
         /\ \A e1, e2 \in tier : e1.key = e2.key => e1 = e2
         /\ \A e \in tier : e.key = GetCanonicalName(e.type)
    /\ \A name \in CanonicalNames :
         Cardinality({e \in defined_types_ : e.key = name})
           + Cardinality({e \in preprocessed_types_ : e.key = name}) <= 2

\* a.Foo is held by both tiers, as a parcelable from the preprocessed file
\* and as an interface from parsing
C10_Witness ==
  /\ pc = "registry"
  /\ Entry("a.Foo", DefinedType(<<"a">>, "Foo", "interface")) \in defined_types_
  /\ Entry("a.Foo", DefinedType(<<"a">>, "Foo", "parcelable")) \in preprocessed_types_
  /\ lastAdd.ret = TRUE

-----------------------------------------------------------------------------
(* aidl_typenames.cpp: looking names up *)

\* aidl_typenames.cpp:47-50
kBuiltinTypes ==
  {"void", "boolean", "byte", "char", "int", "long", "float", "double",
   "String", "List", "Map", "IBinder", "FileDescriptor", "CharSequence"}

\* aidl_typenames.cpp:57-60
kJavaLikeTypeToAidlType ==
  [n \in {"java.util.List", "java.util.Map"} |->
     IF n = "java.util.List" THEN "List" ELSE "Map"]

IsBuiltinTypename_noAliases(type_name) == type_name \in kBuiltinTypes
\* aidl_typenames.cpp:80-83
IsBuiltinTypename(type_name) ==
  type_name \in kBuiltinTypes \/ type_name \in DOMAIN kJavaLikeTypeToAidlType

\* the types the looked-up registries hold: Foo without a package and in two
\* packages, a type named like the built-in List, and the nested parcelable
\* java/util.List, whose canonical name is java.util.List
LookupTypeChoices ==
  {DefinedType(<<>>, "Foo", "parcelable"),
   DefinedType(<<"a">>, "Foo", "parcelable"),
   DefinedType(<<"b">>, "Foo", "parcelable"),
   DefinedType(<<>>, "List", "parcelable"),
   DefinedType(<<"java">>, "util.List", "parcelable")}

\* std::map iterates in ascending key order: the canonical names of
\* LookupTypeChoices as std::string orders them
KeyOrder == <<"Foo", "List", "a.Bar", "a.Foo", "b.Bar", "b.Foo", "java.util.List">>

\* the maps a sequence of successful Add calls can build from a set of types
TierOf(types) == {Entry(GetCanonicalName(t), t) : t \in types}
DefinedTierChoices == {TierOf(types) : types \in SUBSET LookupTypeChoices}

\* aidl.cpp:438-445: ParsePreprocessedLine cuts the class name after the last
\* dot, so no type of the preprocessed tier has a dot in its bare name
PreprocessedTierChoices ==
  {TierOf(types) :
     types \in SUBSET {t \in LookupTypeChoices : t.name # "util.List"}}

PointerTo(tier, e) == [tier |-> tier, type |-> e.type]

FindEntry_never(map, name) == {}
\* map.find(name): the entry under the key, if any
FindEntry(map, name) == {e \in map : e.key = name}

\* aidl_typenames.cpp:100-104 and 106-110: the first entry, in iteration
\* order, whose type has the bare name
RECURSIVE ScanForName(_, _, _)
ScanForName(map, type_name, i) ==
  IF i > Len(KeyOrder) THEN {}
  ELSE LET here == {e \in map : e.key = KeyOrder[i] /\ e.type.name = type_name}
       IN IF here # {} THEN here ELSE ScanForName(map, type_name, i + 1)

TryGetDefinedType_scanBeforePreprocessed(defs, preps, type_name) ==
  LET found_def == FindEntry(defs, type_name)
      found_prep == FindEntry(preps, type_name)
      scan_def == ScanForName(defs, type_name, 1)
      scan_prep == ScanForName(preps, type_name, 1)
  IN IF found_def # {} THEN PointerTo("defined_types_", CHOOSE e \in found_def : TRUE)
     ELSE IF scan_def # {} THEN PointerTo("defined_types_", CHOOSE e \in scan_def : TRUE)
     ELSE IF found_prep # {}
     THEN PointerTo("preprocessed_types_", CHOOSE e \in found_prep : TRUE)
     ELSE IF scan_prep # {}
     THEN PointerTo("preprocessed_types_", CHOOSE e \in scan_prep : TRUE)
     ELSE NullPtr
\* aidl_typenames.cpp:85-112
TryGetDefinedType(defs, preps, type_name) ==
  LET found_def == FindEntry(defs, type_name)
      found_prep == FindEntry(preps, type_name)
      scan_def == ScanForName(defs, type_name, 1)
      scan_prep == ScanForName(preps, type_name, 1)
  IN IF found_def # {} THEN PointerTo("defined_types_", CHOOSE e \in found_def : TRUE)
     ELSE IF found_prep # {}
     THEN PointerTo("preprocessed_types_", CHOOSE e \in found_prep : TRUE)
     ELSE IF scan_def # {} THEN PointerTo("defined_types_", CHOOSE e \in scan_def : TRUE)
     ELSE IF scan_prep # {}
     THEN PointerTo("preprocessed_types_", CHOOSE e \in scan_prep : TRUE)
     ELSE NullPtr

\* aidl_typenames.cpp:114-128
ResolveTypename(defs, preps, type_name) ==
  IF IsBuiltinTypename(type_name)
  THEN IF type_name \in DOMAIN kJavaLikeTypeToAidlType
       THEN [name |-> kJavaLikeTypeToAidlType[type_name], found |-> TRUE]
       ELSE [name |-> type_name, found |-> TRUE]
  ELSE LET defined_type == TryGetDefinedType(defs, preps, type_name)
       IN IF defined_type # NullPtr
          THEN [name |-> GetCanonicalName(defined_type.type), found |-> TRUE]
          ELSE [name |-> type_name, found |-> FALSE]

\* the names looked up: every built-in, the two aliases, canonical and bare
\* names of the types above, and names no type has
LookupNames ==
  kBuiltinTypes \cup {"java.util.List", "java.util.Map"}
    \cup {"Foo", "a.Foo", "b.Foo", "c.Foo", "util.List", "Bar"}

InitLookup ==
  /\ pc = "lk_call"
  /\ defined_types_ \in DefinedTierChoices
  /\ preprocessed_types_ \in PreprocessedTierChoices
  /\ lastAdd = NoAdd
  /\ lkName \in LookupNames
  /\ lkRes = NoLookup
  /\ lkAgain = NoLookup
  /\ IdleExceptLookup

TryGetDefinedTypeCall ==
  /\ pc = "lk_call"
  /\ lkRes' = LookupResult("TryGetDefinedType", lkName,
                TryGetDefinedType(defined_types_, preprocessed_types_, lkName),
                "", FALSE)
  /\ pc' = "lk_done"
  /\ UNCHANGED <<lkName, lkAgain, notLookup>>

\* ResolveTypename on the name, and then once more on the same name or on
\* the name the first call returned
ResolveTypenameCall ==
  \/ /\ pc = "lk_call"
     /\ LET r == ResolveTypename(defined_types_, preprocessed_types_, lkName)
        IN lkRes' = LookupResult("ResolveTypename", lkName, NullPtr, r.name, r.found)
     /\ pc' = "lk_resolved"
     /\ UNCHANGED <<lkName, lkAgain, notLookup>>
  \/ /\ pc = "lk_resolved"
     /\ \E arg \in {lkName, lkRes.name} :
          LET r == ResolveTypename(defined_types_, preprocessed_types_, arg)
          IN lkAgain' = LookupResult("ResolveTypename", arg, NullPtr, r.name, r.found)
     /\ pc' = "lk_done"
     /\ UNCHANGED <<lkName, lkRes, notLookup>>

NextLookup == TryGetDefinedTypeCall \/ ResolveTypenameCall

SpecLookup == InitLookup /\ [][NextLookup]_vars

(* Properties of the lookups *)

WithCanonicalName(tier, name) == {e \in tier : GetCanonicalName(e.type) = name}
WithBareName(tier, name) == {e \in tier : e.type.name = name}

\* the results the four-step search order admits for a name
AdmissibleMatches(name) ==
  IF WithCanonicalName(defined_types_, name) # {}
  THEN {PointerTo("defined_types_", e) : e \in WithCanonicalName(defined_types_, name)}
  ELSE IF WithCanonicalName(preprocessed_types_, name) # {}
  THEN {PointerTo("preprocessed_types_", e) :
          e \in WithCanonicalName(preprocessed_types_, name)}
  ELSE IF WithBareName(defined_types_, name) # {}
  THEN {PointerTo("defined_types_", e) : e \in WithBareName(defined_types_, name)}
  ELSE IF WithBareName(preprocessed_types_, name) # {}
  THEN {PointerTo("preprocessed_types_", e) : e \in WithBareName(preprocessed_types_, name)}
  ELSE {NullPtr}

\* C11: TryGetDefinedType returns the defined-tier entry with the canonical
\* name if there is one, otherwise the preprocessed-tier entry with the
\* canonical name, otherwise a defined-tier entry with the bare name,
\* otherwise a preprocessed-tier entry with the bare name, otherwise nothing.
C11_LookupOrder ==
  (pc = "lk_done" /\ lkRes.op = "TryGetDefinedType") =>
    lkRes.ptr \in AdmissibleMatches(lkName)

\* Foo is the canonical name of a preprocessed type and the bare name of the
\* defined type a.Foo: the preprocessed one is returned
C11_Witness ==
  /\ pc = "lk_done" /\ lkRes.op = "TryGetDefinedType"
  /\ lkName = "Foo"
  /\ WithCanonicalName(defined_types_, "Foo") = {}
  /\ WithCanonicalName(defined_types_, "a.Foo") # {}
  /\ lkRes.ptr = [tier |-> "preprocessed_types_",
                  type |-> DefinedType(<<>>, "Foo", "parcelable")]

FirstResolve == lkRes.op = "ResolveTypename"

\* C12: ResolveTypename returns each of the 14 built-in names unchanged with
\* found, List for java.util.List and Map for java.util.Map, whatever types
\* the registry holds; for any other name it returns the canonical name of
\* TryGetDefinedType's match with found, or the name itself with not-found.
C12_ResolveTypename ==
  FirstResolve =>
    IF lkName \in {"void", "boolean", "byte", "char", "int", "long", "float",
                   "double", "String", "List", "Map", "IBinder",
                   "FileDescriptor", "CharSequence"}
    THEN lkRes.name = lkName /\ lkRes.found
    ELSE IF lkName = "java.util.List" THEN lkRes.name = "List" /\ lkRes.found
    ELSE IF lkName = "java.util.Map" THEN lkRes.name = "Map" /\ lkRes.found
    ELSE IF AdmissibleMatches(lkName) = {NullPtr}
    THEN lkRes.name = lkName /\ ~lkRes.found
    ELSE /\ lkRes.found
         /\ \E p \in AdmissibleMatches(lkName) :
              lkRes.name = GetCanonicalName(p.type)

\* java.util.List resolves to List although the defined tier holds a type
\* whose canonical name is java.util.List
C12_Witness ==
  /\ FirstResolve
  /\ lkName = "java.util.List"
  /\ WithCanonicalName(defined_types_, "java.util.List") # {}
  /\ lkRes.name = "List" /\ lkRes.found

ResolvedTwice ==
  /\ pc = "lk_done"
  /\ FirstResolve /\ lkRes.found
  /\ lkAgain.op = "ResolveTypename"

\* C13 as stated: when n resolves to c, resolving n again yields c and
\* resolving c yields c.
C13_AsStated ==
  ResolvedTwice => (lkAgain.found /\ lkAgain.name = lkRes.name)

LegacyAliasTarget(name) ==
  IF name = "java.util.List" THEN "List"
  ELSE IF name = "java.util.Map" THEN "Map"
  ELSE name

\* C13, amended: when n resolves to c, resolving n again yields c, and
\* resolving c yields c unless c is one of the two legacy aliases
\* java.util.List and java.util.Map, which resolve to List and Map.
C13_ResolveIsIdempotent ==
  ResolvedTwice =>
    /\ lkAgain.found
    /\ lkAgain.arg = lkName => lkAgain.name = lkRes.name
    /\ lkAgain.arg = lkRes.name => lkAgain.name = LegacyAliasTarget(lkRes.name)

\* the bare name Foo resolved to a.Foo, and a.Foo resolves to itself
C13_Witness ==
  /\ ResolvedTwice
  /\ lkName = "Foo" /\ lkRes.name = "a.Foo"
  /\ lkAgain.arg = "a.Foo" /\ lkAgain.name = "a.Foo"

-----------------------------------------------------------------------------
(* aidl_language.cpp: the Parser and the resolution of type specifiers *)

\* a source file as the parser meets it: whether it can be read, whether the
\* grammar rejects it, its package, the classes it imports, the types it
\* defines (up to the syntax error, if any) and the type specifiers it holds
SourceFile(name, readable, syntax_error, package, imports, types, typespecs) ==
  [name |-> name, readable |-> readable, syntax_error |-> syntax_error,
   package |-> package, imports |-> imports, types |-> types,
   typespecs |-> typespecs]

\* AidlTypeSpecifier*: the specifier of a file's document that is the return
\* type of method `item` (arg = 0), the type of its argument `arg`, or the
\* type of field `item`
TypeSpecPtr(file, kind, item, arg) ==
  [file |-> file, kind |-> kind, item |-> item, arg |-> arg]

\* aidl_language.cpp:126-134: the constructor leaves fully_qualified_name_ empty
NewTypeSpec(name, nsAnswer) == TypeSpec(name, "", FALSE, FALSE, <<>>, nsAnswer)

\* yy::parser(this).parse(), aidl_language.cpp:533, through the callbacks of
\* aidl_language.h:552-578: the package is set, every import is appended to
\* imports_, every type specifier to unresolved_typespecs_, and the document
\* is set when the grammar accepts the file; a syntax error counts in error_.
\* recognized is what the parser adds to typenames_ (aidl_typenames.h:41-43).
YaccParse(p, file) ==
  LET seen == [p EXCEPT !.package_ = file.package,
                        !.imports_ = p.imports_ \o file.imports,
                        !.unresolved_typespecs_ =
                            p.unresolved_typespecs_ \o file.typespecs]
  IN IF file.syntax_error
     THEN [ret |-> 1, parser |-> [seen EXCEPT !.error_ = 1],
           recognized |-> file.types]
     ELSE [ret |-> 0,
           parser |-> [seen EXCEPT !.document_ = Document(file.name, file.types)],
           recognized |-> file.types]

\* aidl_language.cpp:510-538
ParseFile(p, file) ==
  IF ~file.readable THEN [ret |-> FALSE, parser |-> p, recognized |-> <<>>]
  ELSE LET reset == [p EXCEPT !.raw_buffer_ = file.name, !.filename_ = file.name,
                              !.package_ = "null", !.error_ = 0]
           parsed == YaccParse(reset, file)
       IN [ret |-> parsed.ret = 0 /\ parsed.parser.error_ = 0,
           parser |-> parsed.parser, recognized |-> parsed.recognized]

\* the parser's additions to its registry, in the order the types are met
RECURSIVE AddRecognized(_, _, _)
AddRecognized(defs, types, i) ==
  IF i > Len(types) THEN defs
  ELSE AddRecognized(AddDefinedTypeCall(defs, types[i]).map, types, i + 1)

Resolve_keepsUnresolvedName(ts, defs, preps) ==
  LET result == ResolveTypename(defs, preps, ts.unresolved_name)
  IN [ret |-> result.found, asserted |-> ~IsResolved(ts),
      ts |-> IF result.found
             THEN [ts EXCEPT !.fully_qualified_name = ts.unresolved_name] ELSE ts]
\* AidlTypeSpecifier::Resolve, aidl_language.cpp:160-167; asserted is the
\* assert(!IsResolved()) of line 161
Resolve(ts, defs, preps) ==
  LET result == ResolveTypename(defs, preps, ts.unresolved_name)
  IN [ret |-> result.found, asserted |-> ~IsResolved(ts),
      ts |-> IF result.found
             THEN [ts EXCEPT !.fully_qualified_name = result.name] ELSE ts]

\* the specifier a pointer of the worklist points to
Deref(ptr, ms, fs) ==
  IF ptr.kind = "field" THEN fs[ptr.item].type
  ELSE IF ptr.arg = 0 THEN ms[ptr.item].type
  ELSE ms[ptr.item].arguments[ptr.arg].type

\* typespec->Resolve(typenames_) writes through the pointer
Store(ptr, ts, ms, fs) ==
  IF ptr.kind = "field"
  THEN [methods |-> ms, fields |-> [fs EXCEPT ![ptr.item].type = ts]]
  ELSE IF ptr.arg = 0
  THEN [methods |-> [ms EXCEPT ![ptr.item].type = ts], fields |-> fs]
  ELSE [methods |-> [ms EXCEPT ![ptr.item].arguments[ptr.arg].type = ts],
        fields |-> fs]

\* Parser::Resolve, aidl_language.cpp:551-561: every specifier of the
\* worklist is tried, a failure does not stop the loop
RECURSIVE ResolveLoop(_, _, _, _, _, _, _, _)
ResolveLoop(worklist, i, ms, fs, defs, preps, success, asserted) ==
  IF i > Len(worklist)
  THEN [success |-> success, asserted |-> asserted, methods |-> ms, fields |-> fs]
  ELSE LET r == Resolve(Deref(worklist[i], ms, fs), defs, preps)
           st == Store(worklist[i], r.ts, ms, fs)
       IN ResolveLoop(worklist, i + 1, st.methods, st.fields, defs, preps,
                      success /\ r.ret, asserted /\ r.asserted)

ParserResolve_alwaysTrue(p, ms, fs, defs, preps) ==
  [ResolveLoop(p.unresolved_typespecs_, 1, ms, fs, defs, preps, TRUE, TRUE)
     EXCEPT !.success = TRUE]
ParserResolve(p, ms, fs, defs, preps) ==
  ResolveLoop(p.unresolved_typespecs_, 1, ms, fs, defs, preps, TRUE, TRUE)

\* the specifiers of a document in the order of its members: the type of
\* each field, the return type of each method and then its arguments' types
RECURSIVE MethodTypeSpecs(_, _, _)
MethodTypeSpecs(file, ms, i) ==
  IF i > Len(ms) THEN <<>>
  ELSE <<TypeSpecPtr(file, "return", i, 0)>>
       \o [j \in 1..Len(ms[i].arguments) |-> TypeSpecPtr(file, "argument", i, j)]
       \o MethodTypeSpecs(file, ms, i + 1)

TypeSpecsOf(file, ms, fs) ==
  [i \in 1..Len(fs) |-> TypeSpecPtr(file, "field", i, 0)]
    \o MethodTypeSpecs(file, ms, 1)

-----------------------------------------------------------------------------
(* aidl.cpp: validate_constants *)

MaxConstants == 3

\* AidlConstantDeclaration: its name, whether its value is the ERROR literal,
\* whether the name of its type is the name of the value's type
Constant(name, value_error, type_matches) ==
  [name |-> name, value_error |-> value_error, type_matches |-> type_matches]

\* AidlConstantDeclaration::CheckValid, aidl_language.cpp:334-345
ConstantCheckValid(c) == ~c.value_error /\ c.type_matches

\* aidl_language.cpp:338-342: the error CheckValid reports itself
ConstantReports(c, i) ==
  IF ~c.value_error /\ ~c.type_matches
  THEN <<[item |-> i, kind |-> "type_mismatch"]>> ELSE <<>>

\* aidl.cpp:395-403: the loop of validate_constants; checked lists the
\* constants CheckValid was called on, `success && ...` skips the call once
\* success is false
RECURSIVE ValidateConstantsLoop(_, _, _, _, _, _)
ValidateConstantsLoop(cs, i, names, success, checked, reports) ==
  IF i > Len(cs)
  THEN [ret |-> success, checked |-> checked, reports |-> reports]
  ELSE LET c == cs[i]
           duplicate == c.name \in names
           dupReport == IF duplicate
                        THEN <<[item |-> i, kind |-> "duplicate"]>> ELSE <<>>
           success1 == success /\ ~duplicate
           called == success1
       IN ValidateConstantsLoop(
            cs, i + 1, names \cup {c.name},
            success1 /\ (IF called THEN ConstantCheckValid(c) ELSE TRUE),
            IF called THEN Append(checked, i) ELSE checked,
            reports \o dupReport \o (IF called THEN ConstantReports(c, i) ELSE <<>>))

\* aidl.cpp:392-405
validate_constants(cs) == ValidateConstantsLoop(cs, 1, {}, TRUE, <<>>, <<>>)

\* the constants of an interface: two names, sound or with one of the two
\* defects CheckValid knows
ConstantChoices ==
  {Constant(n, ve, tm) : n \in {"A", "B"},
     ve \in BOOLEAN, tm \in BOOLEAN} \ {Constant(n, TRUE, FALSE) : n \in {"A", "B"}}

InitValidate ==
  /\ pc = "vc_call"
  /\ constants \in SeqsUpTo(ConstantChoices, MaxConstants)
  /\ vcRes = NoValidation
  /\ IdleExceptValidate

ValidateConstants ==
  /\ pc = "vc_call"
  /\ LET r == validate_constants(constants)
     IN vcRes' = [ret |-> IF r.ret THEN "true" ELSE "false",
                  checked |-> r.checked, reports |-> r.reports]
  /\ pc' = "vc_done"
  /\ UNCHANGED <<constants, notValidate>>

NextValidate == ValidateConstants

SpecValidate == InitValidate /\ [][NextValidate]_vars

-----------------------------------------------------------------------------
(* aidl.cpp: load_and_validate_aidl *)

MaxLoadMethods == 2
MaxLoadFields == 1
MaxImports == 2
\* the members and imports of the input file, taken together
MaxLoadItems == 3
MaxPreprocessedFiles == 1

\* the registry every Parser of load_and_validate_aidl is constructed over,
\* aidl.cpp:533 and 590
kTypenames == "types->typenames_"

AsUnstructuredParcelable_anyParcelable(type) ==
  type.kind \in {"parcelable", "structured_parcelable"}
\* aidl_language.h:402-405
AsUnstructuredParcelable(type) == type.kind = "parcelable"
AsInterface(type) == type.kind = "interface"
AsStructuredParcelable(type) == type.kind = "structured_parcelable"

\* the type of the input file, a.Foo, and a second type in the same file
InputType(kind) == DefinedType(<<"a">>, "Foo", kind)
SecondType == DefinedType(<<"a">>, "Bar", "parcelable")

\* the classes the input file may import, and the type the file of a class
\* defines
ImportClasses == {"b.Foo", "b.Bar"}
ImportedType(class, kind) ==
  DefinedType(<<"b">>, IF class = "b.Foo" THEN "Foo" ELSE "Bar", kind)

\* the documents the parser may hand back
DocChoices ==
  {<<>>, <<InputType("interface")>>, <<InputType("structured_parcelable")>>,
   <<InputType("parcelable")>>,
   <<InputType("interface"), SecondType>>,
   <<InputType("parcelable"), SecondType>>}

\* the methods of a parsed interface: two names, no id, the id 0 or an id
\* past the user range, returning void; one method returning Foo by its
\* bare name and one returning the imported b.Foo
LoadMethodChoices ==
  {Method(n, FALSE, NewTypeSpec("void", "ok"), <<>>, FALSE, 0) : n \in {"foo", "bar"}}
    \cup {Method(n, FALSE, NewTypeSpec("void", "ok"), <<>>, TRUE, 0) : n \in {"foo", "bar"}}
    \cup {Method("bar", FALSE, NewTypeSpec("void", "ok"), <<>>, TRUE,
                  kMaxUserSetMethodId + 1),
          Method("baz", FALSE, NewTypeSpec("Foo", "ok"), <<>>, FALSE, 0),
          Method("qux", FALSE, NewTypeSpec("b.Foo", "ok"), <<>>, FALSE, 0)}

\* the fields of a parsed structured parcelable
Field(ts) == [type |-> ts]
LoadFieldChoices ==
  {Field(NewTypeSpec("int", "ok")), Field(NewTypeSpec("b.Foo", "ok")),
   Field(NewTypeSpec("b.Foo", "unknown"))}

\* a line of a preprocessed file as ParsePreprocessedLine splits it
Line(ok, decl, package, class_name) ==
  [ok |-> ok, decl |-> decl, package |-> package, class_name |-> class_name]
Malformed == Line(FALSE, "", <<>>, "")
PreprocessedFile(opens, lines) == [opens |-> opens, lines |-> lines]
PreprocessedFileChoices ==
  {PreprocessedFile(FALSE, <<>>), PreprocessedFile(TRUE, <<>>),
   PreprocessedFile(TRUE, <<Line(TRUE, "parcelable", <<"b">>, "Foo")>>),
   PreprocessedFile(TRUE, <<Line(TRUE, "structured_parcelable", <<"b">>, "Foo")>>),
   PreprocessedFile(TRUE, <<Line(TRUE, "parcelable", <<"b">>, "Foo"), Malformed>>),
   PreprocessedFile(TRUE, <<Line(TRUE, "enum", <<"b">>, "Foo")>>)}

\* aidl.cpp:467-506: the lines are added to the preprocessed tier until one
\* is malformed or declares an unknown kind; what AddPreprocessedType
\* returns is not looked at
RECURSIVE PreprocessedLines(_, _, _)
PreprocessedLines(lines, i, preps) ==
  IF i > Len(lines) THEN [success |-> TRUE, preps |-> preps]
  ELSE IF ~lines[i].ok THEN [success |-> FALSE, preps |-> preps]
  ELSE IF lines[i].decl \notin {"parcelable", "structured_parcelable", "interface"}
  THEN [success |-> FALSE, preps |-> preps]
  ELSE PreprocessedLines(
         lines, i + 1,
         AddPreprocessedTypeCall(
           preps, DefinedType(lines[i].package, lines[i].class_name, lines[i].decl)).map)

\* aidl.cpp:456-512
parse_preprocessed_file(file, preps) ==
  IF ~file.opens THEN [success |-> FALSE, preps |-> preps]
  ELSE PreprocessedLines(file.lines, 1, preps)

\* aidl.cpp:523-527: every file is parsed, a failure does not stop the loop
RECURSIVE PreprocessedLoop(_, _, _, _)
PreprocessedLoop(files, i, err, preps) ==
  IF i > Len(files) THEN [err |-> err, preps |-> preps]
  ELSE LET r == parse_preprocessed_file(files[i], preps)
       IN PreprocessedLoop(files, i + 1,
                           IF r.success THEN err ELSE "BAD_PRE_PROCESSED_FILE",
                           r.preps)

\* AidlImport: the file the import statement is in and the class it needs,
\* with what the import loop did to it: "pending" before the loop reaches
\* it; registered is what its parse added to the registry
Import(from, needed_class, outcome, document, registered) ==
  [from |-> from, needed_class |-> needed_class, outcome |-> outcome,
   document |-> document, registered |-> registered]

\* what the environment holds for an import: whether the namespace has the
\* type already, whether the resolver finds a file, the file, and whether
\* check_filenames accepts it
ImportEnv(has_import_type, found, file, filename_ok) ==
  [has_import_type |-> has_import_type, found |-> found, file |-> file,
   filename_ok |-> filename_ok]
ImportFile(class, readable, syntax_error, types) ==
  SourceFile(IF class = "b.Foo" THEN "b/Foo.aidl" ELSE "b/Bar.aidl",
             readable, syntax_error, "b", <<>>, types, <<>>)
ImportChoices(class) ==
  {ImportEnv(TRUE, FALSE, ImportFile(class, FALSE, FALSE, <<>>), TRUE),
   ImportEnv(FALSE, FALSE, ImportFile(class, FALSE, FALSE, <<>>), TRUE),
   ImportEnv(FALSE, TRUE, ImportFile(class, FALSE, FALSE, <<>>), TRUE),
   ImportEnv(FALSE, TRUE,
             ImportFile(class, TRUE, TRUE, <<ImportedType(class, "parcelable")>>), TRUE),
   ImportEnv(FALSE, TRUE,
             ImportFile(class, TRUE, FALSE,
                        <<ImportedType(class, "structured_parcelable")>>), FALSE)}
    \cup {ImportEnv(FALSE, TRUE,
                    ImportFile(class, TRUE, FALSE, <<ImportedType(class, k)>>), TRUE) :
            k \in {"structured_parcelable", "parcelable"}}

\* aidl.cpp:540-544, AidlDefinedType::AsUnstructuredParcelable on each type
HasOnlyUnstructuredParcelables(doc) ==
  \A i \in 1..Len(doc) : AsUnstructuredParcelable(doc[i])

ImportTypenames_fresh == "an AidlTypenames of its own"
\* aidl.cpp:590: Parser p{io_delegate, types->typenames_}, the registry the
\* Parser of an import is constructed over
ImportTypenames == kTypenames

NextAfterFailure_break(imports, i) == Len(imports) + 1
\* aidl.cpp:586 and 595: `continue`, the loop goes on with the next import
NextAfterFailure(imports, i) == i + 1

\* aidl.cpp:575-601: one import after the other; `continue` after a failure
RECURSIVE ImportLoop(_, _, _, _, _, _)
ImportLoop(imports, env, i, err, defs, parsers) ==
  IF i > Len(imports)
  THEN [err |-> err, defs |-> defs, imports |-> imports, parsers |-> parsers]
  ELSE
    LET import == imports[i]
        e == env[i]
        p == ParseFile(NewParser(ImportTypenames), e.file)
        defs2 == IF p.parser.typenames_ = kTypenames
                 THEN AddRecognized(defs, p.recognized, 1) ELSE defs
        Done(outcome, document, registered) ==
          [imports EXCEPT ![i] = Import(import.from, import.needed_class, outcome,
                                        document, registered)]
    IN IF e.has_import_type
       THEN ImportLoop(Done("skipped", NoDocument, {}), env, i + 1, err, defs, parsers)
       ELSE IF ~e.found
       THEN ImportLoop(Done("not_found", NoDocument, {}), env,
                       NextAfterFailure(imports, i), "BAD_IMPORT", defs, parsers)
       ELSE IF ~p.ret
       THEN ImportLoop(Done("parse_failed", NoDocument, defs2 \ defs), env,
                       NextAfterFailure(imports, i), "BAD_IMPORT", defs2,
                       Append(parsers, p.parser))
       ELSE ImportLoop(Done(IF e.filename_ok THEN "parsed" ELSE "bad_filename",
                            p.parser.document_, defs2 \ defs),
                       env, i + 1,
                       IF e.filename_ok THEN err ELSE "BAD_IMPORT",
                       defs2,
                       Append(parsers, [p.parser EXCEPT !.document_ = NoDocument]))

\* check_types for a structured parcelable, aidl.cpp:167-187
RECURSIVE CheckFieldsLoop(_, _, _)
CheckFieldsLoop(fs, i, err) ==
  IF i > Len(fs) THEN [err |-> err, fields |-> fs]
  ELSE LET ts == fs[i].type
           bad == \/ ~CheckValid(ts)
                  \/ ~MaybeAddContainerType(ts)
                  \/ ~HasLanguageType(ts)
       IN CheckFieldsLoop([fs EXCEPT ![i].type = SetLanguageType(ts)], i + 1,
                          IF bad THEN 1 ELSE err)

check_types_parcel(fs) == CheckFieldsLoop(fs, 1, 0)

\* AidlTypenames::IterateTypes, called at aidl.cpp:650: the body is run on
\* every type of both tiers
IterateTypes(defs, preps) == {e.type : e \in defs \cup preps}

\* a step of load_and_validate_aidl and whether it succeeded
Step(phase, ok) == [phase |-> phase, ok |-> ok]


Finish(err) ==
  /\ ldErr' = err
  /\ pc' = "ld_done"

InitLoad ==
  /\ pc = "ld_preprocessed"
  /\ ifaceOneway = FALSE /\ methods = <<>> /\ methodsIn = <<>>
  /\ idRes = NoIdRes /\ ctRes = NoCtRes
  /\ defined_types_ = {} /\ preprocessed_types_ = {}
  /\ IdleLoad
  /\ IdleExceptLoad

\* aidl.cpp:518-530: each preprocessed file is parsed; any failure returns
LoadPreprocessed ==
  /\ pc = "ld_preprocessed"
  /\ \E files \in SeqsUpTo(PreprocessedFileChoices, MaxPreprocessedFiles) :
        LET r == PreprocessedLoop(files, 1, "OK", preprocessed_types_)
        IN /\ preprocessed_types_' = r.preps
           /\ ldTrace' = Append(ldTrace, Step("preprocessed", r.err = "OK"))
           /\ IF r.err # "OK" THEN Finish(r.err)
              ELSE pc' = "ld_parse" /\ ldErr' = "OK"
  /\ UNCHANGED <<ifVars, defined_types_, ldDoc, ldImports, returned_type,
                 ldStructured, ldFields, ldParsers, notLoad>>

\* aidl.cpp:532-538: the Parser of the input file is constructed and
\* ParseFile is called on it
ParseInput ==
  /\ pc = "ld_parse"
  /\ \E readable \in BOOLEAN, syntax_error \in BOOLEAN, doc \in DocChoices,
        ms \in SeqsUpTo(LoadMethodChoices, MaxLoadMethods),
        fs \in SeqsUpTo(LoadFieldChoices, MaxLoadFields),
        needed \in SeqsUpTo(ImportClasses, MaxImports) :
        /\ \A i, j \in 1..Len(needed) : i # j => needed[i] # needed[j]
        /\ Len(ms) + Len(fs) + Len(needed) <= MaxLoadItems
        /\ ~readable => syntax_error /\ doc = <<>>
        /\ syntax_error => Len(doc) <= 1 /\ needed = <<>>
        /\ (doc = <<>> \/ ~AsInterface(doc[1]) \/ syntax_error) => ms = <<>>
        /\ (doc = <<>> \/ ~AsStructuredParcelable(doc[1]) \/ syntax_error) => fs = <<>>
        /\ LET file == SourceFile("a/Foo.aidl", readable, syntax_error, "a",
                                  [i \in 1..Len(needed) |->
                                     Import("a/Foo.aidl", needed[i], "pending",
                                            NoDocument, {})],
                                  doc, TypeSpecsOf("a/Foo.aidl", ms, fs))
               p == ParseFile(NewParser(kTypenames), file)
           IN /\ ldParsers' = Append(ldParsers, p.parser)
              /\ defined_types_' = AddRecognized(defined_types_, p.recognized, 1)
              /\ ldTrace' = Append(ldTrace, Step("parse", p.ret))
              /\ IF ~p.ret
                 THEN /\ Finish("PARSE_ERROR")
                      /\ UNCHANGED <<ifVars, ldDoc, ldFields, ldImports>>
                 ELSE /\ ldDoc' = p.parser.document_.types
                      /\ ldImports' = p.parser.imports_
                      /\ ifaceOneway' = FALSE
                      /\ methods' = ms
                      /\ methodsIn' = ms
                      /\ ldFields' = fs
                      /\ pc' = "ld_document"
                      /\ UNCHANGED <<ldErr, idRes, ctRes>>
  /\ UNCHANGED <<preprocessed_types_, returned_type, ldStructured, notLoad>>

\* aidl.cpp:540-572: the shape of the document, the file name, the package
CheckDocument ==
  /\ pc = "ld_document"
  /\ \E filename_ok \in BOOLEAN, package_ok \in BOOLEAN :
        LET err == IF ldDoc = <<>> THEN "BAD_TYPE"
                   ELSE IF HasOnlyUnstructuredParcelables(ldDoc) THEN "FOUND_PARCELABLE"
                   ELSE IF Len(ldDoc) > 1 THEN "BAD_TYPE"
                   ELSE IF ~filename_ok \/ ~package_ok THEN "BAD_PACKAGE"
                   ELSE "OK"
        IN /\ ldTrace' = Append(ldTrace, Step("document", err = "OK"))
           /\ IF err # "OK" THEN Finish(err)
              ELSE pc' = "ld_imports" /\ UNCHANGED ldErr
  /\ UNCHANGED <<ifVars, defined_types_, preprocessed_types_, ldDoc, ldImports,
                 returned_type, ldStructured, ldFields, ldParsers, notLoad>>

\* aidl.cpp:574-604: the import loop, then the return on any failure
LoadImports ==
  /\ pc = "ld_imports"
  /\ \E env \in [1..Len(ldImports) -> UNION {ImportChoices(c) : c \in ImportClasses}] :
        /\ \A i \in 1..Len(ldImports) : env[i] \in ImportChoices(ldImports[i].needed_class)
        /\ LET r == ImportLoop(ldImports, env, 1, ldErr, defined_types_, ldParsers)
           IN /\ ldImports' = r.imports
              /\ defined_types_' = r.defs
              /\ ldParsers' = r.parsers
              /\ ldTrace' = Append(ldTrace, Step("imports", r.err = "OK"))
              /\ IF r.err # "OK" THEN Finish(r.err)
                 ELSE pc' = "ld_resolve" /\ UNCHANGED ldErr
  /\ UNCHANGED <<ifVars, preprocessed_types_, ldDoc, returned_type, ldStructured,
                 ldFields, notLoad>>

\* aidl.cpp:606-608: Parser::Resolve on the Parser of the input file
ResolveTypes ==
  /\ pc = "ld_resolve"
  /\ LET r == ParserResolve(ldParsers[1], methods, ldFields, defined_types_,
                            preprocessed_types_)
     IN /\ methods' = r.methods
        /\ ldFields' = r.fields
        /\ ldTrace' = Append(ldTrace, Step("resolve", r.success))
        /\ IF ~r.asserted THEN Finish("ABORT")
           ELSE IF ~r.success THEN Finish("BAD_TYPE")
           ELSE pc' = "ld_types" /\ UNCHANGED ldErr
  /\ UNCHANGED <<ifaceOneway, methodsIn, idRes, ctRes, defined_types_,
                 preprocessed_types_, ldDoc, ldImports, returned_type, ldStructured,
                 ldParsers, notLoad>>

\* aidl.cpp:610-647: the type is added to the namespace, the imported
\* documents are gathered, the referenced types are checked; err is looked
\* at only after all three
GatherAndCheckTypes ==
  /\ pc = "ld_types"
  /\ \E added \in BOOLEAN, gathered \in BOOLEAN, utf8Conflict \in BOOLEAN :
        LET interface == AsInterface(ldDoc[1])
            gather_fails ==
              ~gathered /\ \E i \in 1..Len(ldImports) : ldImports[i].document # NoDocument
            r == check_types(methods, ifaceOneway, utf8Conflict)
            f == check_types_parcel(ldFields)
            checked == IF interface THEN r.err = 0 ELSE f.err = 0
            bad == ~added \/ gather_fails \/ ~checked
        IN /\ IF interface
              THEN /\ methods' = r.methods
                   /\ ctRes' = [err |-> r.err, reports |-> r.reports]
                   /\ UNCHANGED ldFields
              ELSE /\ ldFields' = f.fields
                   /\ UNCHANGED <<methods, ctRes>>
           /\ ldTrace' = ldTrace \o <<Step("register", added)>>
                \o (IF \E i \in 1..Len(ldImports) : ldImports[i].document # NoDocument
                    THEN <<Step("gather", gathered)>> ELSE <<>>)
                \o <<Step("check_types", checked)>>
           /\ IF bad THEN Finish("BAD_TYPE")
              ELSE pc' = "ld_structured" /\ UNCHANGED ldErr
  /\ UNCHANGED <<ifaceOneway, methodsIn, idRes, defined_types_, preprocessed_types_,
                 ldDoc, ldImports, returned_type, ldStructured, ldParsers, notLoad>>

\* aidl.cpp:649-660: in structured mode no type of the registry may be an
\* unstructured parcelable
CheckStructured ==
  /\ pc = "ld_structured"
  /\ \E is_structured \in BOOLEAN :
        LET bad == /\ is_structured
                   /\ \E type \in IterateTypes(defined_types_, preprocessed_types_) :
                         AsUnstructuredParcelable(type)
        IN /\ ldStructured' = is_structured
           /\ ldTrace' = Append(ldTrace, Step("structured", ~bad))
           /\ IF bad THEN Finish("BAD_TYPE")
              ELSE pc' = "ld_ids" /\ UNCHANGED ldErr
  /\ UNCHANGED <<ifVars, defined_types_, preprocessed_types_, ldDoc, ldImports,
                 returned_type, ldFields, ldParsers, notLoad>>

\* aidl.cpp:662-677: method ids, constants, and the hand-over of the type
AssignIdsAndReturn ==
  /\ pc = "ld_ids"
  /\ \E cs \in SeqsUpTo({Constant("A", FALSE, TRUE), Constant("A", FALSE, FALSE)}, 2) :
        LET interface == AsInterface(ldDoc[1])
            r == check_and_assign_method_ids(methods)
            v == validate_constants(cs)
        IN /\ IF interface
              THEN /\ methods' = r.items
                   /\ idRes' = [ret |-> r.ret, errItem |-> r.errItem, errKind |-> r.errKind]
              ELSE UNCHANGED <<methods, idRes>>
           /\ IF interface /\ r.ret # 0
              THEN /\ Finish("BAD_METHOD_ID")
                   /\ ldTrace' = Append(ldTrace, Step("method_ids", FALSE))
                   /\ UNCHANGED returned_type
              ELSE IF interface /\ ~v.ret
              THEN /\ Finish("BAD_CONSTANTS")
                   /\ ldTrace' = ldTrace \o <<Step("method_ids", TRUE),
                                              Step("constants", FALSE)>>
                   /\ UNCHANGED returned_type
              ELSE /\ Finish("OK")
                   /\ ldTrace' = ldTrace \o (IF interface
                                             THEN <<Step("method_ids", TRUE),
                                                    Step("constants", TRUE)>>
                                             ELSE <<>>)
                   /\ returned_type' = ldDoc[1].kind
  /\ UNCHANGED <<ifaceOneway, methodsIn, ctRes, defined_types_, preprocessed_types_,
                 ldDoc, ldImports, ldStructured, ldFields, ldParsers, notLoad>>

NextLoad ==
  \/ LoadPreprocessed
  \/ ParseInput
  \/ CheckDocument
  \/ LoadImports
  \/ ResolveTypes
  \/ GatherAndCheckTypes
  \/ CheckStructured
  \/ AssignIdsAndReturn

SpecLoad == InitLoad /\ [][NextLoad]_vars

ReturnedInterface ==
  pc = "ld_done" /\ ldErr = "OK" /\ returned_type = "interface"

\* the type specifiers of the input file's document
InputTypeSpecs == TypeSpecsOf("a/Foo.aidl", methods, ldFields)

\* whether Parser::Resolve has run on the input file's Parser
ResolveHasRun == \E k \in 1..Len(ldTrace) : ldTrace[k].phase = "resolve"

AsResolveLeavesIt(ts) ==
  LET result == ResolveTypename(defined_types_, preprocessed_types_, ts.unresolved_name)
  IN IF result.found
     THEN IsResolved(ts) /\ ts.fully_qualified_name = result.name
     ELSE ~IsResolved(ts)

\* a resolved specifier keeps its fully-qualified name in the next state
StaysResolved ==
  \A k \in 1..Len(InputTypeSpecs) :
    LET ptr == InputTypeSpecs[k]
        ts == Deref(ptr, methods, ldFields)
    IN IsResolved(ts) =>
         Deref(ptr, methods', ldFields').fully_qualified_name = ts.fully_qualified_name

\* C14: a type specifier is unresolved from construction until Resolve is
\* called on it; a failed Resolve leaves it unresolved and a successful one
\* sets the fully-qualified name to the canonical name the registry returns;
\* Resolve is never called on a resolved specifier, and once resolved a
\* specifier keeps its name for the rest of the run.
C14_ResolutionIsMonotonic ==
  /\ [](pc \in {"ld_preprocessed", "ld_parse", "ld_document", "ld_imports",
               "ld_resolve", "ld_types", "ld_structured", "ld_ids", "ld_done"} =>
         /\ ldErr # "ABORT"
         /\ \A k \in 1..Len(InputTypeSpecs) :
              LET ts == Deref(InputTypeSpecs[k], methods, ldFields)
              IN IF ResolveHasRun THEN AsResolveLeavesIt(ts) ELSE ~IsResolved(ts))
  /\ [][StaysResolved]_vars

\* Resolve has run: Foo was given the canonical name a.Foo, b.Foo is in no
\* tier and stayed unresolved
C14_Witness ==
  /\ ResolveHasRun
  /\ Len(methods) = 2
  /\ methods[1].type.unresolved_name = "Foo"
  /\ methods[1].type.fully_qualified_name = "a.Foo"
  /\ methods[2].type.unresolved_name = "b.Foo"
  /\ ~IsResolved(methods[2].type)

-----------------------------------------------------------------------------
(* aidl_language.cpp: ParseFile called again on the same Parser *)

MaxParses == 2

\* the files handed to the Parser: under each of two names a file that
\* cannot be read, one with an import and a type specifier, one with
\* neither, and one the grammar rejects after the import and the specifier
ParserFileChoices ==
  UNION {
    {SourceFile(n, FALSE, FALSE, "null", <<>>, <<>>, <<>>),
     SourceFile(n, TRUE, FALSE, n, <<Import(n, "x.Y", "pending", NoDocument, {})>>,
                <<DefinedType(<<n>>, "Foo", "interface")>>,
                <<TypeSpecPtr(n, "return", 1, 0)>>),
     SourceFile(n, TRUE, FALSE, n, <<>>,
                <<DefinedType(<<n>>, "Foo", "structured_parcelable")>>, <<>>),
     SourceFile(n, TRUE, TRUE, n, <<Import(n, "x.Y", "pending", NoDocument, {})>>,
                <<>>, <<TypeSpecPtr(n, "return", 1, 0)>>)} : n \in {"a", "b"}}

\* what the log keeps of a call
ParseCall(file, ret) == [file |-> file, ret |-> ret]

InitParser ==
  /\ pc = "ps_call"
  /\ parser = NewParser(kTypenames)
  /\ psLog = <<>>
  /\ IdleExceptParser

\* aidl_language.cpp:510-538, on the Parser whatever it has parsed before
ParseFileCall ==
  /\ pc = "ps_call"
  /\ Len(psLog) < MaxParses
  /\ \E file \in ParserFileChoices :
        LET r == ParseFile(parser, file)
        IN /\ parser' = r.parser
           /\ defined_types_' = AddRecognized(defined_types_, r.recognized, 1)
           /\ psLog' = Append(psLog, ParseCall(file, r.ret))
  /\ UNCHANGED <<pc, ifVars, tsVars, constVars, preprocessed_types_, lastAdd, lkVars,
                 loadVars, vcVars, toolVars>>

\* Parser::ReleaseImports, aidl_language.h:569-572
ReleaseImports ==
  /\ pc = "ps_call"
  /\ parser.imports_ # <<>>
  /\ parser' = [parser EXCEPT !.imports_ = <<>>]
  /\ UNCHANGED <<pc, psLog, notParser>>

NextParser ==
  \/ ParseFileCall
  \/ ReleaseImports

SpecParser == InitParser /\ [][NextParser]_vars

\* the last file handed to ParseFile, after at least two calls
ParsedAgain == pc = "ps_call" /\ Len(psLog) >= 2 /\ psLog[Len(psLog)].file.readable
LastFile == psLog[Len(psLog)].file

\* C15: after a second ParseFile on the same Parser, of a file that can be
\* read, the buffer, the file name, the package and the error count are
\* those of the second file, and the import list and the worklist of
\* unresolved type specifiers hold only entries of the second file.
C15_AsStated ==
  ParsedAgain =>
    /\ parser.raw_buffer_ = LastFile.name
    /\ parser.filename_ = LastFile.name
    /\ parser.package_ = LastFile.package
    /\ parser.error_ = (IF LastFile.syntax_error THEN 1 ELSE 0)
    /\ \A k \in 1..Len(parser.imports_) : parser.imports_[k].from = LastFile.name
    /\ \A k \in 1..Len(parser.unresolved_typespecs_) :
         parser.unresolved_typespecs_[k].file = LastFile.name

-----------------------------------------------------------------------------
(* aidl.cpp: the import loop of load_and_validate_aidl *)

\* whether the import loop has run
ImportsHaveRun == \E k \in 1..Len(ldTrace) : ldTrace[k].phase = "imports"

\* aidl.cpp:583-599: not found, not parsed, or in a file of the wrong name
ImportFailed(import) == import.outcome \in {"not_found", "parse_failed", "bad_filename"}

\* no step after the import loop has run: no specifier is resolved, nothing
\* was checked, no id was assigned
StoppedAfterImports ==
  /\ pc = "ld_done"
  /\ ldTrace[Len(ldTrace)].phase = "imports"
  /\ \A k \in 1..Len(InputTypeSpecs) :
       ~IsResolved(Deref(InputTypeSpecs[k], methods, ldFields))
  /\ methods = methodsIn
  /\ ctRes = NoCtRes /\ idRes = NoIdRes
  /\ returned_type = "null"

\* C16: once the import loop has run, no import of the input file was left
\* out, whatever happened to the imports before it; BAD_IMPORT is returned
\* exactly when one of them failed, and then right after the loop, before
\* any type is resolved or checked.
C16_AllImportsAttempted ==
  ImportsHaveRun =>
    /\ \A i \in 1..Len(ldImports) : ldImports[i].outcome # "pending"
    /\ (\E i \in 1..Len(ldImports) : ImportFailed(ldImports[i]))
         <=> ldErr = "BAD_IMPORT"
    /\ ldErr = "BAD_IMPORT" => StoppedAfterImports

\* the first import was not found, the second was parsed all the same, and
\* BAD_IMPORT came back
C16_Witness ==
  /\ ImportsHaveRun
  /\ Len(ldImports) = 2
  /\ ldImports[1].needed_class # ldImports[2].needed_class
  /\ ldImports[1].outcome = "not_found"
  /\ ldImports[2].outcome = "parsed"
  /\ ldErr = "BAD_IMPORT"
  /\ StoppedAfterImports

\* the Parsers constructed in the import loop; the first Parser is the one
\* of the input file
ImportParsers == 2..Len(ldParsers)

\* the imports a Parser was constructed for
ParsedImports ==
  {i \in 1..Len(ldImports) :
     ldImports[i].outcome \in {"parse_failed", "bad_filename", "parsed"}}

-----------------------------------------------------------------------------
(* aidl.cpp: the order of the steps of load_and_validate_aidl *)

\* the phase a step belongs to: 1 the preprocessed files, 2 the parse of the
\* input file and the look at its document, 3 the imports, 4 the resolution
\* of the type specifiers, 5 the validation of lines 610-660, 6 the method
\* ids, 7 the constants
PhaseOf ==
  [preprocessed |-> 1, parse |-> 2, document |-> 2, imports |-> 3, resolve |-> 4,
   register |-> 5, gather |-> 5, check_types |-> 5, structured |-> 5,
   method_ids |-> 6, constants |-> 7]

HasRun(phase) == \E k \in 1..Len(ldTrace) : ldTrace[k].phase = phase

\* a method id differs from the one the parser set, or the assignment ran
IdsAssigned ==
  \/ idRes # NoIdRes
  \/ \E i \in 1..Len(methods) : methods[i].id # methodsIn[i].id

SomeTypeSpecResolved ==
  \E k \in 1..Len(InputTypeSpecs) :
    IsResolved(Deref(InputTypeSpecs[k], methods, ldFields))

\* after the import loop no step adds a type to the registry
RegistryIsComplete ==
  (pc \in {"ld_resolve", "ld_types", "ld_structured", "ld_ids"}) =>
    /\ defined_types_' = defined_types_
    /\ preprocessed_types_' = preprocessed_types_

-----------------------------------------------------------------------------
(* aidl.cpp: what validate_constants checks and reports *)

\* the defects validate_constants and CheckValid report: a name used by an
\* earlier constant, a value whose type is not the declared one
DuplicateName(i) == \E j \in 1..(i - 1) : constants[j].name = constants[i].name
TypeMismatch(i) == ~constants[i].value_error /\ ~constants[i].type_matches
Defective(i) == DuplicateName(i) \/ ~ConstantCheckValid(constants[i])

Reported(i, kind) ==
  \E k \in 1..Len(vcRes.reports) :
    vcRes.reports[k].item = i /\ vcRes.reports[k].kind = kind

\* C19: a defect in one constant does not stop the checking of the ones
\* after it: every constant is checked, every defect is reported in the same
\* call, and the call fails exactly when there is a defect.
C19_AsStated ==
  pc = "vc_done" =>
    /\ vcRes.checked = [i \in 1..Len(constants) |-> i]
    /\ \A i \in 1..Len(constants) :
         /\ DuplicateName(i) => Reported(i, "duplicate")
         /\ TypeMismatch(i) => Reported(i, "type_mismatch")
    /\ vcRes.ret = "false" <=> \E i \in 1..Len(constants) : Defective(i)

-----------------------------------------------------------------------------
(* aidl.cpp: the structured-mode check of load_and_validate_aidl *)

\* the types the input file refers to: the types its resolved specifiers
\* name and the types of the documents it imports
TypesNamed ==
  {TryGetDefinedType(defined_types_, preprocessed_types_,
                     Deref(InputTypeSpecs[k], methods, ldFields).fully_qualified_name).type :
     k \in {n \in 1..Len(InputTypeSpecs) :
              /\ IsResolved(Deref(InputTypeSpecs[n], methods, ldFields))
              /\ TryGetDefinedType(
                   defined_types_, preprocessed_types_,
                   Deref(InputTypeSpecs[n], methods, ldFields).fully_qualified_name)
                   # NullPtr}}
TypesImported ==
  UNION {{ldImports[i].document.types[j] : j \in 1..Len(ldImports[i].document.types)} :
           i \in 1..Len(ldImports)}
ReferencedTypes == TypesNamed \cup TypesImported \cup {ldDoc[j] : j \in 1..Len(ldDoc)}

\* the structured-mode check has run with options.IsStructured() set
StructuredChecked == HasRun("structured") /\ ldStructured

\* the run failed in the structured-mode check
FailedAsUnstructured ==
  /\ pc = "ld_done" /\ ldErr = "BAD_TYPE"
  /\ ldTrace[Len(ldTrace)] = Step("structured", FALSE)

-----------------------------------------------------------------------------
(* aidl_apicheck.cpp: the compatibility check of two versions of an API *)

MaxApiMethods == 2
MaxApiFields == 2

\* AidlAnnotation::Parse, aidl_language.cpp:76-89: every annotation written
\* in a file becomes an object of its own (new AidlAnnotation); ptr is its
\* address, told apart by the load that made it, the node it is written on
\* and its name
AidlAnnotation(name, ptr) == [name_ |-> name, ptr |-> ptr]
ParseAnnotations(names, load, where) ==
  {AidlAnnotation(n, <<load, where, n>>) : n \in names}

\* AidlAnnotatable::Annotate, aidl_language.h:72-74: the node takes over the
\* set of unique_ptr<AidlAnnotation>
Annotate(node, annotations) == [annotations_ |-> annotations] @@ node

\* the accessor used at aidl_apicheck.cpp:36 hands out the member
\* annotations_ of aidl_language.h:84, a set<unique_ptr<AidlAnnotation>>
GetAnnotations(node) == node.annotations_

\* operator!= of two set<unique_ptr<AidlAnnotation>>: the elements are
\* compared with unique_ptr's operator==, which compares the addresses held
AnnotationsDiffer(older, newer) == {a.ptr : a \in older} # {a.ptr : a \in newer}

\* std::sort of the annotation texts (aidl_language.cpp:122)
kAnnotationOrder == <<"nullable", "utf8", "utf8InCpp">>

\* AidlAnnotatable::ToString, aidl_language.cpp:117-124
AnnotatableToString(node) ==
  LET names == {a.name_ : a \in GetAnnotations(node)}
      sorted == SelectSeq(kAnnotationOrder, LAMBDA n : n \in names)
  IN Join([i \in 1..Len(sorted) |-> "@" \o sorted[i]], " ")

\* AidlTypeSpecifier::ToString, aidl_language.cpp:137-150
RECURSIVE TypeToString(_)
TypeToString(ts) ==
  LET ps == ts.type_params
  IN GetName(ts)
       \o (IF IsGeneric(ts)
           THEN "<" \o Join([i \in 1..Len(ps) |-> TypeToString(ps[i])], ",") \o ">"
           ELSE "")
       \o (IF ts.is_array THEN "[]" ELSE "")

\* AidlMethod::Signature, aidl_language.cpp:379-385
Signature(m) ==
  LET args == m.arguments
  IN m.name \o "(" \o Join([i \in 1..Len(args) |-> TypeToString(args[i].type)], ", ")
       \o ")"

\* what a compatibility check hands back: its verdict, the errors it logged
\* and whether a CHECK of its own failed
Verdict(compatible, reports, check_failed) ==
  [compatible |-> compatible, reports |-> reports, check_failed |-> check_failed]
Report(kind, from, to) == [kind |-> kind, from |-> from, to |-> to]

\* compatible &= ..., with the errors of both sides kept in order
AndThen(a, b) ==
  Verdict(a.compatible /\ b.compatible, a.reports \o b.reports,
          a.check_failed \/ b.check_failed)

\* aidl_apicheck.cpp:34-43
have_compatible_annotations(older, newer) ==
  IF AnnotationsDiffer(GetAnnotations(older), GetAnnotations(newer))
  THEN LET from == IF AnnotatableToString(older) = "" THEN "(empty)"
                   ELSE AnnotatableToString(older)
           to == IF AnnotatableToString(newer) = "" THEN "(empty)"
                 ELSE AnnotatableToString(newer)
       IN Verdict(FALSE, <<Report("Changed annotations", from, to)>>, FALSE)
  ELSE Verdict(TRUE, <<>>, FALSE)

\* aidl_apicheck.cpp:45-53
are_compatible_types(older, newer) ==
  AndThen(IF TypeToString(older) # TypeToString(newer)
          THEN Verdict(FALSE, <<Report("Type changed", TypeToString(older),
                                       TypeToString(newer))>>, FALSE)
          ELSE Verdict(TRUE, <<>>, FALSE),
          have_compatible_annotations(older, newer))

\* AidlArgument::GetDirectionSpecifier, aidl_language.cpp:240-256, for an
\* argument whose direction is written
GetDirectionSpecifier(arg) ==
  IF arg.direction = IN_DIR THEN "in "
  ELSE IF arg.direction = OUT_DIR THEN "out " ELSE "inout "

\* aidl_apicheck.cpp:90-100: the loop over the arguments of two methods
RECURSIVE CompareArguments(_, _, _, _)
CompareArguments(old_args, new_args, i, acc) ==
  IF i > Len(old_args) THEN acc
  ELSE LET old_a == old_args[i]
           new_a == new_args[i]
           types == are_compatible_types(old_a.type, new_a.type)
           dir == IF old_a.direction # new_a.direction
                  THEN Verdict(FALSE, <<Report("Direction changed",
                                               GetDirectionSpecifier(old_a),
                                               GetDirectionSpecifier(new_a))>>, FALSE)
                  ELSE Verdict(TRUE, <<>>, FALSE)
       IN CompareArguments(old_args, new_args, i + 1, AndThen(AndThen(acc, types), dir))

FindMethod_first(new_methods, signature) == IF new_methods = <<>> THEN 0 ELSE 1
\* map::emplace and map::find on new_methods, aidl_apicheck.cpp:59-65: the
\* first method with a signature is the one the map keeps; 0 is end()
FindMethod(new_methods, signature) ==
  LET hits == {i \in 1..Len(new_methods) : Signature(new_methods[i]) = signature}
  IN IF hits = {} THEN 0 ELSE CHOOSE i \in hits : \A j \in hits : i <= j

IdsDiffer_never(old_m, new_m) == FALSE
\* aidl_apicheck.cpp:77
IdsDiffer(old_m, new_m) == old_m.id # new_m.id

\* aidl_apicheck.cpp:64-101: the loop over the methods of the old interface
RECURSIVE CompareMethods(_, _, _, _)
CompareMethods(old_methods, new_methods, i, acc) ==
  IF i > Len(old_methods) THEN acc
  ELSE
    LET old_m == old_methods[i]
        found == FindMethod(new_methods, Signature(old_m))
    IN IF found = 0
       THEN CompareMethods(old_methods, new_methods, i + 1,
                           AndThen(acc, Verdict(FALSE,
                                     <<Report("Removed method", Signature(old_m), "")>>,
                                     FALSE)))
       ELSE
         LET new_m == new_methods[found]
             ids == IF IdsDiffer(old_m, new_m)
                    THEN Verdict(FALSE, <<Report("Transaction ID changed",
                                                 Signature(old_m), Signature(new_m))>>,
                                 FALSE)
                    ELSE Verdict(TRUE, <<>>, FALSE)
             ret == are_compatible_types(old_m.type, new_m.type)
             sizes == Len(old_m.arguments) = Len(new_m.arguments)
             args == IF sizes
                     THEN CompareArguments(old_m.arguments, new_m.arguments, 1,
                                           Verdict(TRUE, <<>>, FALSE))
                     ELSE Verdict(TRUE, <<>>, TRUE)
         IN CompareMethods(old_methods, new_methods, i + 1,
                           AndThen(AndThen(AndThen(acc, ids), ret), args))

\* aidl_apicheck.cpp:55-103
are_compatible_interfaces(older, newer) ==
  CompareMethods(older.methods, newer.methods, 1,
                 have_compatible_annotations(older, newer))

\* aidl_apicheck.cpp:117-128: the loop over the fields of the old parcelable
RECURSIVE CompareFields(_, _, _, _)
CompareFields(old_fields, new_fields, i, acc) ==
  IF i > Len(old_fields) THEN acc
  ELSE LET types == are_compatible_types(old_fields[i].type, new_fields[i].type)
           names == IF old_fields[i].name # new_fields[i].name
                    THEN Verdict(FALSE, <<Report("Renamed field", old_fields[i].name,
                                                 new_fields[i].name)>>, FALSE)
                    ELSE Verdict(TRUE, <<>>, FALSE)
       IN CompareFields(old_fields, new_fields, i + 1, AndThen(AndThen(acc, types), names))

\* aidl_apicheck.cpp:105-130
are_compatible_parcelables(older, newer) ==
  IF Len(older.fields) > Len(newer.fields)
  THEN Verdict(FALSE, <<Report("Number of fields reduced", "", "")>>, FALSE)
  ELSE CompareFields(older.fields, newer.fields, 1, Verdict(TRUE, <<>>, FALSE))

\* a type as written in a file: the specifier and the names of the
\* annotations in front of it
Written(ts, names) == [spec |-> ts, names |-> names]

\* the parser's construction of an annotated AidlTypeSpecifier
ParseType(w, load, where) == Annotate(w.spec, ParseAnnotations(w.names, load, where))

\* AidlMethod::AidlMethod, aidl_language.cpp:347-376, for the i-th method
ParseMethod(m, load, i) ==
  Method(m.name, FALSE, ParseType(m.type, load, 100 * i),
         [j \in 1..Len(m.arguments) |->
            Argument(m.arguments[j].direction,
                     ParseType(m.arguments[j].type, load, 100 * i + j))],
         m.has_id, m.id)

\* AidlVariableDeclaration::AidlVariableDeclaration, aidl_language.cpp:190-197;
\* default_value is "null" or the Type of the AidlConstantValue
VariableDeclaration(ts, name, default_value) ==
  [type |-> ts, name |-> name, default_value |-> default_value]
ParseField(f, load, i) ==
  VariableDeclaration(ParseType(f.type, load, 100 * i), f.name, f.default_value)

\* a declaration as written: an interface with methods or a structured
\* parcelable with fields
ApiDecl(kind, name, names, ms, fs) ==
  [kind |-> kind, name |-> name, names |-> names, methods |-> ms, fields |-> fs]

\* AidlDefinedType::AidlDefinedType, aidl_language.cpp:395-398, with the
\* members of the subclass
ParseDecl(d, load) ==
  Annotate([package |-> <<"a">>, name |-> d.name, kind |-> d.kind,
            methods |-> [i \in 1..Len(d.methods) |-> ParseMethod(d.methods[i], load, i)],
            fields |-> [i \in 1..Len(d.fields) |-> ParseField(d.fields[i], load, i)]],
           ParseAnnotations(d.names, load, 0))

\* AidlConstantValue::ToString(Type), aidl_language.cpp:275-287: "fatal" is
\* LOG(FATAL)
ValueTypeToString(type) ==
  IF type = "INTEGER" THEN "int"
  ELSE IF type = "STRING" THEN "String"
  ELSE "fatal"

\* AidlVariableDeclaration::CheckValid, aidl_language.cpp:199-215
VariableDeclarationCheckValid(v) ==
  IF ~CheckValid(v.type) THEN "false"
  ELSE IF v.default_value = "null" THEN "true"
  ELSE LET given_type == GetName(v.type)
           value_type == ValueTypeToString(v.default_value)
       IN IF value_type = "fatal" THEN "fatal"
          ELSE IF given_type # value_type THEN "false" ELSE "true"

\* check_types of an interface, aidl.cpp:196-205: a method name seen before
RedefinedMethod(ms) ==
  \E i \in 1..Len(ms) :
     NameSeen([n \in {ms[j].name : j \in 1..(i - 1)} |-> TRUE], ms[i].name)

Loaded(err, type) == [err |-> err, type |-> type]

\* load_and_validate_aidl, aidl.cpp:514-677, on a parsed type in structured
\* mode: check_types, then the method ids; "FATAL" is the process ending
\* inside it
ValidateType(type) ==
  IF AsStructuredParcelable(type)
  THEN LET checks == {VariableDeclarationCheckValid(type.fields[i]) :
                         i \in 1..Len(type.fields)}
       IN IF "fatal" \in checks THEN Loaded("FATAL", type)
          ELSE IF "false" \in checks THEN Loaded("BAD_TYPE", type)
          ELSE Loaded("OK", type)
  ELSE IF RedefinedMethod(type.methods) THEN Loaded("BAD_TYPE", type)
  ELSE LET ids == check_and_assign_method_ids(type.methods)
       IN IF ids.ret # 0 THEN Loaded("BAD_METHOD_ID", type)
          ELSE Loaded("OK", [type EXCEPT !.methods = ids.items])

\* load_and_validate_aidl as check_api calls it: the error returned and
\* the defined types handed back
LoadApi(src, load) ==
  IF ~src.readable THEN [err |-> "PARSE_ERROR", types |-> <<>>]
  ELSE LET done == [i \in 1..Len(src.types) |-> ValidateType(ParseDecl(src.types[i], load))]
           failed == {i \in 1..Len(done) : done[i].err # "OK"}
       IN IF failed = {}
          THEN [err |-> "OK", types |-> [i \in 1..Len(done) |-> done[i].type]]
          ELSE [err |-> done[CHOOSE i \in failed : \A j \in failed : i <= j].err,
                types |-> <<>>]

\* new_map.find, aidl_apicheck.cpp:157-164; 0 is end()
FindType(new_types, name) ==
  LET hits == {i \in 1..Len(new_types) : GetCanonicalName(new_types[i]) = name}
  IN IF hits = {} THEN 0 ELSE CHOOSE i \in hits : \A j \in hits : i <= j

\* aidl_apicheck.cpp:163-193: the loop over the old types
RECURSIVE CompareTypes(_, _, _, _)
CompareTypes(old_types, new_types, i, acc) ==
  IF i > Len(old_types) THEN acc
  ELSE
    LET old_type == old_types[i]
        found == FindType(new_types, GetCanonicalName(old_type))
        new_type == new_types[found]
        one ==
          IF found = 0
          THEN Verdict(FALSE, <<Report("Removed type", GetCanonicalName(old_type), "")>>,
                       FALSE)
          ELSE IF AsInterface(old_type) # AsInterface(new_type)
          THEN Verdict(FALSE, <<Report("Type mismatch", old_type.kind, new_type.kind)>>,
                       FALSE)
          ELSE IF AsInterface(old_type)
          THEN are_compatible_interfaces(old_type, new_type)
          ELSE IF ~AsStructuredParcelable(old_type) \/ ~AsStructuredParcelable(new_type)
          THEN Verdict(TRUE, <<>>, TRUE)
          ELSE are_compatible_parcelables(old_type, new_type)
    IN CompareTypes(old_types, new_types, i + 1, AndThen(acc, one))

\* check_api, aidl_apicheck.cpp:132-196. ret is what the function returned,
\* or "fatal" when the process ended in it (AIDL_FATAL, LOG(FATAL), CHECK)
check_api(old_input, new_input) ==
  LET old == LoadApi(old_input, "old")
      new == LoadApi(new_input, "new")
  IN IF old.err = "FATAL"
     THEN ApiResult("fatal", <<>>, <<>>, <<>>)
     ELSE IF old.err # "OK"
     THEN ApiResult("false", <<Report("Failed to read", "old", "")>>, <<>>, <<>>)
     ELSE IF new.err = "FATAL"
     THEN ApiResult("fatal", <<>>, old.types, <<>>)
     ELSE IF new.err # "OK"
     THEN ApiResult("fatal", <<Report("Failed to read", "new", "")>>, old.types, <<>>)
     ELSE LET v == CompareTypes(old.types, new.types, 1, Verdict(TRUE, <<>>, FALSE))
          IN ApiResult(IF v.check_failed THEN "fatal"
                       ELSE IF v.compatible THEN "true" ELSE "false",
                       v.reports, old.types, new.types)

StringType == TypeSpec("String", "String", FALSE, FALSE, <<>>, "ok")
IntArrayType == TypeSpec("int", "int", TRUE, FALSE, <<>>, "ok")

\* a method as written
ApiMethod(name, args, has_id, id) ==
  [name |-> name, type |-> Written(VoidType, {}), arguments |-> args,
   has_id |-> has_id, id |-> id]
ApiArgument(dir, ts, names) == [direction |-> dir, type |-> Written(ts, names)]

ApiMethodChoices ==
  {ApiMethod("foo", <<>>, FALSE, 0),
   ApiMethod("foo", <<>>, TRUE, 1),
   ApiMethod("bar", <<>>, FALSE, 0),
   ApiMethod("bar", <<ApiArgument(IN_DIR, IntArrayType, {})>>, FALSE, 0),
   ApiMethod("bar", <<ApiArgument(IN_DIR, IntArrayType, {"nullable"})>>, FALSE, 0),
   ApiMethod("bar", <<ApiArgument(INOUT_DIR, IntArrayType, {})>>, FALSE, 0)}

\* a field as written: its type, its name and the kind of its default value
ApiField(ts, names, name, default_value) ==
  [type |-> Written(ts, names), name |-> name, default_value |-> default_value]

ApiFieldChoices ==
  {ApiField(IntType, {}, "x", "null"),
   ApiField(IntType, {}, "y", "null"),
   ApiField(StringType, {}, "x", "STRING"),
   ApiField(StringType, {"nullable", "utf8InCpp"}, "x", "null"),
   ApiField(IntType, {}, "x", "ERROR")}

ApiSourceChoices ==
  {ApiSource(FALSE, <<>>)}
    \cup {ApiSource(TRUE, <<ApiDecl("interface", "Foo", {}, ms, <<>>)>>) :
            ms \in SeqsUpTo(ApiMethodChoices, MaxApiMethods)}
    \cup {ApiSource(TRUE, <<ApiDecl("structured_parcelable", "Foo", {}, <<>>, fs)>>) :
            fs \in SeqsUpTo(ApiFieldChoices, MaxApiFields)}

InitCheckApi ==
  /\ pc = "api_call"
  /\ apiOld \in ApiSourceChoices
  /\ apiNew \in ApiSourceChoices
  /\ apiRes = NoApiResult
  /\ IdleCore /\ IdleRun /\ IdlePreprocessed

CheckApi ==
  /\ pc = "api_call"
  /\ apiRes' = check_api(apiOld, apiNew)
  /\ pc' = "api_done"
  /\ UNCHANGED <<apiOld, apiNew, coreVars, runVars, ppFile>>

NextCheckApi == CheckApi

SpecCheckApi == InitCheckApi /\ [][NextCheckApi]_vars

-----------------------------------------------------------------------------
(* C21: fatal termination and bad input *)

\* a defect of the file's content: the file cannot be read, or a field's
\* default value is a literal that was tagged ERROR when it was created
ErrorDefault(src) ==
  \E i \in 1..Len(src.types) : \E j \in 1..Len(src.types[i].fields) :
     src.types[i].fields[j].default_value = "ERROR"
UserDefect(src) == ~src.readable \/ ErrorDefault(src)

\* C21, as stated: the process never ends fatally as a consequence of a
\* defect in user input: when a file handed to check_api is unreadable or
\* holds an ERROR-tagged literal as a field default, the check reports an
\* error and returns a failure result, it does not abort.
C21_AsStated ==
  (pc = "api_done" /\ (UserDefect(apiOld) \/ UserDefect(apiNew)))
     => apiRes.ret = "false"

-----------------------------------------------------------------------------
(* C22: compatibility of two structured parcelables *)

\* check_api has loaded both files and compared their types
BothLoaded ==
  pc = "api_done" /\ apiRes.old_types # <<>> /\ apiRes.new_types # <<>>
OldType == apiRes.old_types[1]
NewType == apiRes.new_types[1]

\* the annotations written on a node, as the set of their names
AnnotationNames(node) == {a.name_ : a \in GetAnnotations(node)}

SameTypeAndAnnotations(older, newer) ==
  /\ TypeToString(older) = TypeToString(newer)
  /\ AnnotationNames(older) = AnnotationNames(newer)

-----------------------------------------------------------------------------
(* C23: transaction ids of the methods both versions have *)

\* the transaction id a method of the new interface carries after its load
IdChanged(old_m) ==
  LET found == FindMethod(NewType.methods, Signature(old_m))
  IN found # 0 /\ NewType.methods[found].id # old_m.id

\* C23: when both versions are interfaces and a method of the old one has a
\* method of the same signature in the new one with a different transaction
\* id, assigned by position or written by the user, check_api returns
\* incompatible and reports the change for that method.
C23_ChangedIdIsIncompatible ==
  (BothLoaded /\ AsInterface(OldType) /\ AsInterface(NewType))
     => \A i \in 1..Len(OldType.methods) :
           IdChanged(OldType.methods[i])
             => /\ apiRes.ret = "false"
                /\ \E k \in 1..Len(apiRes.reports) :
                      /\ apiRes.reports[k].kind = "Transaction ID changed"
                      /\ apiRes.reports[k].from = Signature(OldType.methods[i])

\* two methods written without ids were reordered: bar moved from the
\* second place to the first, so the ids assigned by position differ
C23_Witness ==
  /\ BothLoaded /\ AsInterface(OldType) /\ AsInterface(NewType)
  /\ Len(apiOld.types[1].methods) = 2 /\ Len(apiNew.types[1].methods) = 2
  /\ \A i \in 1..2 : ~apiOld.types[1].methods[i].has_id
  /\ \A i \in 1..2 : ~apiNew.types[1].methods[i].has_id
  /\ \E i \in 1..2 : IdChanged(OldType.methods[i])
  /\ apiRes.ret = "false"

-----------------------------------------------------------------------------
(* C24: removed and added methods *)

\* the key of a method: its name and the types of its arguments
MethodKeys(type) == {Signature(type.methods[i]) : i \in 1..Len(type.methods)}

Removed(i) == Signature(OldType.methods[i]) \notin MethodKeys(NewType)

\* the new interface without the methods only it has
WithoutAdded(older, newer) ==
  [newer EXCEPT !.methods = SelectSeq(newer.methods,
                                       LAMBDA m : Signature(m) \in MethodKeys(older))]

\* C24: every method of the old interface whose key is not a key of the new
\* interface makes check_api return incompatible and is reported as removed;
\* the methods only the new interface has change nothing: the comparison
\* gives the same verdict and the same reports as without them.
C24_RemovedNotAdded ==
  (BothLoaded /\ AsInterface(OldType) /\ AsInterface(NewType))
     => /\ \A i \in 1..Len(OldType.methods) :
              Removed(i)
                => /\ apiRes.ret = "false"
                   /\ \E k \in 1..Len(apiRes.reports) :
                         /\ apiRes.reports[k].kind = "Removed method"
                         /\ apiRes.reports[k].from = Signature(OldType.methods[i])
        /\ LET v == are_compatible_interfaces(OldType, WithoutAdded(OldType, NewType))
           IN /\ apiRes.reports = v.reports
              /\ apiRes.ret = IF v.compatible THEN "true" ELSE "false"
        /\ (MethodKeys(OldType) = {} => apiRes.ret = "true")

\* an old method is gone from the new interface, which has a method the old
\* one does not have
C24_Witness ==
  /\ BothLoaded /\ AsInterface(OldType) /\ AsInterface(NewType)
  /\ \E i \in 1..Len(OldType.methods) : Removed(i)
  /\ MethodKeys(NewType) \ MethodKeys(OldType) # {}
  /\ apiRes.ret = "false"

\* the new interface only adds a method and stays compatible
C24_WitnessAdded ==
  /\ BothLoaded /\ AsInterface(OldType) /\ AsInterface(NewType)
  /\ MethodKeys(OldType) # {}
  /\ MethodKeys(OldType) \subseteq MethodKeys(NewType)
  /\ MethodKeys(NewType) \ MethodKeys(OldType) # {}
  /\ apiRes.ret = "true"

-----------------------------------------------------------------------------
(* C25: compatibility of corresponding arguments *)

\* the method of the new interface an old method is compared with
Counterpart(old_m) == NewType.methods[FindMethod(NewType.methods, Signature(old_m))]

\* nothing but the arguments can differ: every old method is still there
\* with its id and with the same return type
OnlyArgumentsCompared ==
  /\ BothLoaded /\ AsInterface(OldType) /\ AsInterface(NewType)
  /\ AnnotationNames(OldType) = {} /\ AnnotationNames(NewType) = {}
  /\ \A i \in 1..Len(OldType.methods) :
        /\ ~Removed(i)
        /\ ~IdChanged(OldType.methods[i])
        /\ TypeToString(OldType.methods[i].type)
             = TypeToString(Counterpart(OldType.methods[i]).type)
        /\ AnnotationNames(OldType.methods[i].type) = {}
        /\ AnnotationNames(Counterpart(OldType.methods[i]).type) = {}

SameArgument(old_a, new_a) ==
  /\ SameTypeAndAnnotations(old_a.type, new_a.type)
  /\ old_a.direction = new_a.direction

-----------------------------------------------------------------------------
(* C29: the compatibility check is reflexive *)

\* the content passes load_and_validate_aidl in structured mode
LoadsCleanly(src) == LoadApi(src, "old").err = "OK"

-----------------------------------------------------------------------------
(* aidl.cpp: the entry points compile_aidl_to_cpp, compile_aidl_to_java and *)
(* dump_api                                                                 *)

MaxInputFiles == 3

\* an input file: whether it parses and validates, and the type it defines
InputFile(valid, type) == [valid |-> valid, type |-> type]

\* a unique_ptr<AidlDefinedType> that holds nothing
NullDefinedType == DefinedType(<<>>, "", "null")

\* load_and_validate_aidl, aidl.cpp:514-677, as its callers see it: the
\* error returned and what *returned_type holds afterwards. The pointer is
\* written at line 671 only, after every check has passed; the return of
\* FOUND_PARCELABLE at line 555 and the other failures come before it
LoadAndValidate(file) ==
  IF ~file.valid THEN [err |-> "PARSE_ERROR", returned_type |-> NullDefinedType]
  ELSE IF AsUnstructuredParcelable(file.type)
  THEN [err |-> "FOUND_PARCELABLE", returned_type |-> NullDefinedType]
  ELSE [err |-> "OK", returned_type |-> file.type]

\* a place where a caller applies * or -> to the unique_ptr
Dereference(line, ptr) == [line |-> line, null |-> ptr = NullDefinedType]

\* aidl.cpp:681-710: the loop of compile_aidl_to_cpp over the input files
RECURSIVE CompileCppLoop(_, _, _, _)
CompileCppLoop(files, i, loads, derefs) ==
  IF i > Len(files) THEN RunResult("compile_aidl_to_cpp", "0", loads, derefs, <<>>)
  ELSE LET l == LoadAndValidate(files[i])
           t == l.returned_type
       IN IF l.err # "OK"
          THEN RunResult("compile_aidl_to_cpp", "1", Append(loads, l), derefs, <<>>)
          ELSE IF t = NullDefinedType
          THEN RunResult("compile_aidl_to_cpp", "fatal", Append(loads, l), derefs, <<>>)
          ELSE CompileCppLoop(files, i + 1, Append(loads, l),
                              derefs \o <<Dereference(701, t), Dereference(706, t)>>)

\* compile_aidl_to_cpp, aidl.cpp:680-713
compile_aidl_to_cpp(options) == CompileCppLoop(options.input_files, 1, <<>>, <<>>)

\* aidl.cpp:715-758: the loop of compile_aidl_to_java. null_deref is what
\* the build makes of * applied to a unique_ptr that holds nothing:
\* "proceeds" (the reference is not read) or "aborts"
RECURSIVE CompileJavaLoop(_, _, _, _, _, _)
CompileJavaLoop(files, fail_on_parcelable, null_deref, i, loads, derefs) ==
  IF i > Len(files) THEN RunResult("compile_aidl_to_java", "0", loads, derefs, <<>>)
  ELSE LET l == LoadAndValidate(files[i])
           t == l.returned_type
       IN IF l.err = "FOUND_PARCELABLE" /\ ~fail_on_parcelable
          THEN RunResult("compile_aidl_to_java",
                         IF t = NullDefinedType /\ null_deref = "aborts"
                         THEN "crash" ELSE "0",
                         Append(loads, l), Append(derefs, Dereference(728, t)), <<>>)
          ELSE IF l.err # "OK"
          THEN RunResult("compile_aidl_to_java", "1", Append(loads, l), derefs, <<>>)
          ELSE IF t = NullDefinedType
          THEN RunResult("compile_aidl_to_java", "fatal", Append(loads, l), derefs, <<>>)
          ELSE CompileJavaLoop(files, fail_on_parcelable, null_deref, i + 1,
                               Append(loads, l),
                               derefs \o <<Dereference(748, t), Dereference(753, t)>>)

\* compile_aidl_to_java, aidl.cpp:714-761
compile_aidl_to_java(options, null_deref) ==
  CompileJavaLoop(options.input_files, options.fail_on_parcelable, null_deref, 1,
                  <<>>, <<>>)

\* the order of std::string's operator< and compare on the names used
kStringOrder == <<"Bar", "Foo", "Qux", "a", "b">>
IndexOf(s) == CHOOSE i \in 1..Len(kStringOrder) : kStringOrder[i] = s

\* std::string::compare: negative, zero or positive
Compare(lhs, rhs) ==
  IF IndexOf(lhs) < IndexOf(rhs) THEN -1
  ELSE IF IndexOf(lhs) = IndexOf(rhs) THEN 0 ELSE 1

\* the comparator handed to std::sort at aidl.cpp:804-806: the int that
\* compare returns is converted to the bool std::sort asks for
SortByName(lhs, rhs) == Compare(lhs.name, rhs.name) # 0

\* what std::sort requires of its comparator on the elements it is given
IsStrictWeakOrdering(comp(_, _), S) ==
  /\ \A a \in S : ~comp(a, a)
  /\ \A a, b \in S : comp(a, b) => ~comp(b, a)
  /\ \A a, b, c \in S : (comp(a, b) /\ comp(b, c)) => comp(a, c)
  /\ \A a, b, c \in S :
        (~comp(a, b) /\ ~comp(b, a) /\ ~comp(b, c) /\ ~comp(c, b))
           => (~comp(a, c) /\ ~comp(c, a))

Rearranged(list) == {[i \in 1..Len(list) |-> list[p[i]]] : p \in Permutations(1..Len(list))}

\* std::sort(list.begin(), list.end(), comp), aidl.cpp:804-806: the orders
\* it can leave the list in. With a strict weak ordering they are the
\* rearrangements in which no element comes before one it is greater than;
\* with any other comparator the behaviour is undefined and the list can be
\* left in any order
SortOutcomes(list) ==
  LET elements == {list[i] : i \in 1..Len(list)}
  IN IF IsStrictWeakOrdering(SortByName, elements)
     THEN {l \in Rearranged(list) :
              \A i, j \in 1..Len(l) : i < j => ~SortByName(l[j], l[i])}
     ELSE Rearranged(list)

\* types_by_package[package].emplace_back, aidl.cpp:795-796: the types of a
\* package in the order of their input files
TypesOfPackage(types, package) ==
  SelectSeq(types, LAMBDA t : GetPackage(t) = package)

\* the keys of types_by_package in the order the map iterates over them
PackagesOf(types) ==
  SelectSeq(kStringOrder, LAMBDA s : \E i \in 1..Len(types) : GetPackage(types[i]) = s)

\* one block of the output: "package <name> {", the types, "}"
Block(package, types) == [package |-> package, types |-> types]

\* aidl.cpp:802-821: every package's list is sorted, then the blocks are
\* written in the order of the map
RECURSIVE DumpOutcomes(_, _, _)
DumpOutcomes(types, packages, i) ==
  IF i > Len(packages) THEN {<<>>}
  ELSE {<<Block(packages[i], sorted)>> \o rest :
          sorted \in SortOutcomes(TypesOfPackage(types, packages[i])),
          rest \in DumpOutcomes(types, packages, i + 1)}

\* aidl.cpp:788-800: the loop of dump_api over the input files
RECURSIVE DumpLoadLoop(_, _, _, _)
DumpLoadLoop(files, i, loads, derefs) ==
  IF i > Len(files) THEN [ok |-> TRUE, loads |-> loads, derefs |-> derefs]
  ELSE LET l == LoadAndValidate(files[i])
       IN IF l.err = "OK"
          THEN DumpLoadLoop(files, i + 1, Append(loads, l),
                            Append(derefs, Dereference(795, l.returned_type)))
          ELSE [ok |-> FALSE, loads |-> Append(loads, l), derefs |-> derefs]

\* dump_api, aidl.cpp:784-824: the results it can end with
dump_api(options) ==
  LET r == DumpLoadLoop(options.input_files, 1, <<>>, <<>>)
      types == [i \in 1..Len(r.loads) |-> r.loads[i].returned_type]
  IN IF ~r.ok THEN {RunResult("dump_api", "false", r.loads, r.derefs, <<>>)}
     ELSE {RunResult("dump_api", "true", r.loads, r.derefs, out) :
             out \in DumpOutcomes(types, PackagesOf(types), 1)}

InputFileChoices ==
  {InputFile(FALSE, DefinedType(<<"a">>, "Foo", "interface")),
   InputFile(TRUE, DefinedType(<<"a">>, "Foo", "parcelable"))}
    \cup {InputFile(TRUE, DefinedType(<<"a">>, n, "interface")) : n \in {"Bar", "Foo", "Qux"}}
    \cup {InputFile(TRUE, DefinedType(<<"b">>, "Foo", "structured_parcelable"))}

InitRun ==
  /\ pc = "run_call"
  /\ \E files \in SeqsUpTo(InputFileChoices, MaxInputFiles) \ {<<>>} :
        \E fail_on_parcelable \in BOOLEAN :
           toolIn = Options(files, fail_on_parcelable)
  /\ toolRes = NoRun
  /\ IdleCore /\ IdleApi /\ IdlePreprocessed

CompileAidlToCpp ==
  /\ pc = "run_call"
  /\ toolRes' = compile_aidl_to_cpp(toolIn)
  /\ pc' = "run_done"
  /\ UNCHANGED <<toolIn, coreVars, apiVars, ppFile>>

CompileAidlToJava ==
  /\ pc = "run_call"
  /\ \E null_deref \in {"proceeds", "aborts"} :
        toolRes' = compile_aidl_to_java(toolIn, null_deref)
  /\ pc' = "run_done"
  /\ UNCHANGED <<toolIn, coreVars, apiVars, ppFile>>

DumpApi ==
  /\ pc = "run_call"
  /\ toolRes' \in dump_api(toolIn)
  /\ pc' = "run_done"
  /\ UNCHANGED <<toolIn, coreVars, apiVars, ppFile>>

NextRun == CompileAidlToCpp \/ CompileAidlToJava \/ DumpApi

SpecRun == InitRun /\ [][NextRun]_vars

-----------------------------------------------------------------------------
(* C26: the order of dump_api's output *)

Before(lhs, rhs) == Compare(lhs, rhs) < 0

\* C26, as stated: when every input file loads, the output of dump_api has
\* its packages in ascending order of package name and, within each
\* package, the types in lexicographic order of their names.
C26_AsStated ==
  (pc = "run_done" /\ toolRes.caller = "dump_api" /\ toolRes.ret = "true")
     => LET out == toolRes.out
        IN /\ \A i, j \in 1..Len(out) : i < j => Before(out[i].package, out[j].package)
           /\ \A k \in 1..Len(out) : \A i, j \in 1..Len(out[k].types) :
                 i < j => ~Before(out[k].types[j].name, out[k].types[i].name)

-----------------------------------------------------------------------------
(* C30: the returned type and its dereferences *)

\* C30, as stated: load_and_validate_aidl sets *returned_type exactly when
\* it returns OK, and on every path of compile_aidl_to_java,
\* compile_aidl_to_cpp and dump_api, the path of FOUND_PARCELABLE with
\* fail-on-parcelable off included, the returned type is non-null wherever
\* it is dereferenced.
C30_AsStated ==
  pc = "run_done"
     => /\ \A i \in 1..Len(toolRes.loads) :
              toolRes.loads[i].err = "OK"
                 <=> toolRes.loads[i].returned_type # NullDefinedType
        /\ \A k \in 1..Len(toolRes.derefs) : ~toolRes.derefs[k].null

-----------------------------------------------------------------------------
(* C28: the ids are written all at once or not at all *)

IdsUntouched == \A i \in 1..Len(methodsIn) : methods[i].id = methodsIn[i].id

\* C28: when check_and_assign_method_ids fails, for mixed, duplicate or
\* out-of-range ids, no method's id has been modified; when it succeeds on
\* methods that all carry an id written by the user, every id is as the user
\* wrote it; an id is written only when no method has an id written by the
\* user, and nothing but ids is ever written.
C28_IdsWrittenOnlyWhenNoneSet ==
  IdsDone
     => /\ Len(methods) = Len(methodsIn)
        /\ idRes.ret # 0 => IdsUntouched
        /\ (idRes.ret = 0 /\ AllHaveId) => IdsUntouched
        /\ ~IdsUntouched => (NoneHasId /\ idRes.ret = 0)
        /\ \A i \in 1..Len(methods) : [methods[i] EXCEPT !.id = methodsIn[i].id] = methodsIn[i]

\* the call failed on mixed ids where the second method has no id: assigning
\* by position would have given it the id 1
C28_Witness ==
  /\ IdsDone /\ idRes.ret = 1 /\ idRes.errKind = "mixed"
  /\ Len(methodsIn) >= 2 /\ ~methodsIn[2].has_id /\ methodsIn[2].id = 0
  /\ IdsUntouched

-----------------------------------------------------------------------------
(* aidl.cpp: the lines of a preprocessed file *)

MaxRawLines == 2

\* a line as written is a sequence of pieces of text: words, " ", ";" and
\* "//"; the characters of a word are never looked at one by one, except
\* for its last dot
Blank == {" "}
Trimmed == {" ", ";"}

\* string::find_last_not_of(" ;\t"), aidl.cpp:411; 0 is npos
FindLastNotOf(line, set) ==
  LET keep == {i \in 1..Len(line) : line[i] \notin set}
  IN IF keep = {} THEN 0 ELSE CHOOSE i \in keep : \A j \in keep : j <= i

\* Split(line.substr(0, end + 1), " \t") without its empty pieces,
\* aidl.cpp:421-433: the runs of text between blanks
RECURSIVE Pieces(_, _, _)
Pieces(text, i, piece) ==
  IF i > Len(text) THEN (IF piece = "" THEN <<>> ELSE <<piece>>)
  ELSE IF text[i] \in Blank
  THEN (IF piece = "" THEN <<>> ELSE <<piece>>) \o Pieces(text, i + 1, "")
  ELSE Pieces(text, i + 1, piece \o text[i])

\* type.rfind('.') and the two substr of aidl.cpp:440-447, on the names the
\* lines are written with
SplitAtLastDot(type) ==
  IF type = "a.Foo" THEN [package |-> <<"a">>, class_name |-> "Foo"]
  ELSE IF type = "b.Foo" THEN [package |-> <<"b">>, class_name |-> "Foo"]
  ELSE [package |-> <<>>, class_name |-> type]

\* ParsePreprocessedLine, aidl.cpp:408-450
ParsePreprocessedLine(line) ==
  LET end == FindLastNotOf(line, Trimmed)
      pieces == Pieces(SubSeq(line, 1, end), 1, "")
      decl == pieces[1]
      type == IF Len(pieces) >= 2 THEN pieces[2] ELSE ""
      names == SplitAtLastDot(type)
  IN IF end = 0 THEN Malformed
     ELSE IF \E i \in 1..end : line[i] = ";" THEN Malformed
     ELSE IF Len(pieces) > 2 THEN Malformed
     ELSE Line(TRUE, decl, names.package, names.class_name)

\* aidl.cpp:467-470: empty lines and lines that start with // are skipped
Skipped(line) == line = <<>> \/ line[1] = "//"

\* the lines ReadLine hands to ParsePreprocessedLine, as it splits them
ReadLines(lines) ==
  LET read == SelectSeq(lines, LAMBDA l : ~Skipped(l))
  IN [i \in 1..Len(read) |-> ParsePreprocessedLine(read[i])]

RawLineChoices ==
  {<<>>,
   <<"//", " ", "a.Foo">>,
   <<" ">>,
   <<";", " ">>,
   <<"parcelable", " ", "a.Foo", ";">>,
   <<"interface", " ", "Bar", ";", " ">>,
   <<"structured_parcelable", " ", " ", "b.Foo">>,
   <<"parcelable", " ", "a.Foo", " ", "Bar", ";">>,
   <<"parcelable", ";", "a.Foo", ";">>,
   <<"parcelable", ";">>,
   <<"enum", " ", "a.Foo", ";">>}

InitPreprocessed ==
  /\ pc = "pp_call"
  /\ \E opens \in BOOLEAN : \E lines \in SeqsUpTo(RawLineChoices, MaxRawLines) :
        /\ opens \/ lines = <<>>
        /\ ppFile = PreprocessedFile(opens, lines)
  /\ IdleCore /\ IdleApi /\ IdleRun

\* load_and_validate_aidl, aidl.cpp:518-530, with one preprocessed file: on
\* a failure it returns before the Parser of the input file is made
LoadPreprocessedFile ==
  /\ pc = "pp_call"
  /\ LET file == PreprocessedFile(ppFile.opens, ReadLines(ppFile.lines))
         r == PreprocessedLoop(<<file>>, 1, "OK", preprocessed_types_)
     IN /\ preprocessed_types_' = r.preps
        /\ ldTrace' = Append(ldTrace, Step("preprocessed", r.err = "OK"))
        /\ IF r.err # "OK" THEN Finish(r.err)
           ELSE pc' = "ld_parse" /\ ldErr' = "OK"
  /\ UNCHANGED <<ifVars, defined_types_, ldDoc, ldImports, returned_type,
                 ldStructured, ldFields, ldParsers, notLoad, ppFile>>

NextPreprocessed == LoadPreprocessedFile

SpecPreprocessed == InitPreprocessed /\ [][NextPreprocessed]_vars

-----------------------------------------------------------------------------
(* C27: malformed lines of a preprocessed file *)

kPreprocessedKinds == {"parcelable", "structured_parcelable", "interface"}

\* what is left of a line after its trailing semicolons and blanks
Content(line) == SubSeq(line, 1, FindLastNotOf(line, Trimmed))

\* the line has the form <kind> <qualified.name>; : a kind, blanks, a name
WellFormed(line) ==
  LET c == SelectSeq(Content(line), LAMBDA s : s \notin Blank)
  IN /\ Len(c) = 2
     /\ c[1] \in kPreprocessedKinds
     /\ c[2] \in {"a.Foo", "b.Foo", "Bar"}
     /\ \E i \in 1..Len(Content(line)) : Content(line)[i] \in Blank

\* the lines that are neither comments nor empty, in order
Meaningful == SelectSeq(ppFile.lines, LAMBDA l : ~Skipped(l))
FirstMalformed ==
  LET bad == {i \in 1..Len(Meaningful) : ~WellFormed(Meaningful[i])}
  IN IF bad = {} THEN 0 ELSE CHOOSE i \in bad : \A j \in bad : i <= j

\* the names written on the lines before the k-th meaningful one
NamesBefore(k) ==
  {SelectSeq(Content(Meaningful[i]), LAMBDA s : s \notin Blank)[2] : i \in 1..(k - 1)}
RegisteredNames == {e.key : e \in preprocessed_types_}

PreprocessedDone == pc \in {"ld_parse", "ld_done"} /\ ppFile.opens

\* C27, as stated: the load of a preprocessed file succeeds only if every
\* line that is neither a comment nor blank has the form
\* <kind> <qualified.name>; with a kind among parcelable,
\* structured_parcelable and interface; at the first malformed line (more
\* than two tokens, nothing left after trimming, no name, an unknown kind)
\* it stops and fails, no later line is processed, and
\* load_and_validate_aidl returns the bad-preprocessed-file error without
\* parsing the input file.
C27_AsStated ==
  PreprocessedDone
     => /\ pc = "ld_parse" => FirstMalformed = 0
        /\ FirstMalformed # 0
             => /\ pc = "ld_done" /\ ldErr = "BAD_PRE_PROCESSED_FILE"
                /\ RegisteredNames = NamesBefore(FirstMalformed)
                /\ ldParsers = <<>>

====
